---- MODULE Spec2Model ----
(***************************************************************************)
(* MinuteMaster: the recording wizard (web front end of server.js and the  *)
(* Electron renderer), the Express backend (server.js) and the key         *)
(* encryption helpers (crypto-utils).                                       *)
(*                                                                         *)
(* Eight specifications share the module:                                  *)
(*   Spec         the wizard from page load: steps 0-2 and navigation      *)
(*   SpecRec      the recording step                                       *)
(*   SpecReview   transcript review, summary and export                    *)
(*   SpecSpeakers speaker identification and export, from step 5           *)
(*   SpecProcess  recordings, the processing each Stop starts, navigation  *)
(*   SpecSamples  the speaker samples of longer segment lists              *)
(*   SpecServer  the backend routes with their session middleware          *)
(*   SpecCrypto  encrypt / decrypt on bounded plaintexts                   *)
(***************************************************************************)
EXTENDS Integers, Sequences, FiniteSets, TLC

(***************************************************************************)
(* Bounds                                                                  *)
(***************************************************************************)
\* audio input devices the browser enumerates
NumDevices == 2
\* fetches / IPC calls of one kind that may be in flight together
MaxPending == 1
\* Start clicks accepted in one page load
MaxStarts == 2
\* segments of a transcription
MaxSegs == 2
\* segments of a list sent to /api/extract-speaker-snippets
MaxSampleSegs == 10
\* entries of an analysis reply
MaxEntries == 2
\* summaries requested in one page load
MaxSummaries == 1
\* code units of a plaintext given to encrypt
MaxLen == 2
\* states of the random generator that crypto.randomBytes may draw from
NumSeeds == 2

Devices == 1..NumDevices

VARIABLES
  \* ---- wizard (web: server.js 884-906, desktop: renderer.js 4-15) ----
  app,                  \* "web" | "desktop": which front end runs
  currentStep,
  isAuthenticated,      \* web only
  apiKeyConfigured,     \* desktop only
  keyValidated,         \* history: init-openai succeeded / saved key reported
  prevDisabled,         \* #prev-step .disabled
  nextDisabled,         \* #next-step .disabled
  continueShown,        \* web: #continue-with-api displayed
  saveBtnDisabled,      \* desktop: #save-api-key .disabled
  micListed,            \* the microphone check boxes exist in the DOM
  micChecked,           \* devices whose check box is checked
  selectedMicrophones,  \* sequence of device ids
  pend,                 \* calls in flight, by kind
  \* ---- recording (server.js 887-900, renderer.js 7-10) ----
  starts,               \* startRecording calls so far; names the sessions
  tasks,                \* startRecording calls waiting in getUserMedia
  streams,              \* every MediaStream opened: device, live, opener
  audioStreams,         \* web: sequence of stream ids
  audioContext,         \* web: id of the context in the global, 0 = null
  ctxOpen,              \* AudioContexts created and not closed
  recorders,            \* MediaRecorders by session: state, inputs
  mediaRecorder,        \* session of the recorder in the global, 0 = null
  timers,               \* intervals set and not cleared
  recordingTimer,       \* session of the interval in the global, 0 = null
  vizLoops,             \* requestAnimationFrame loops still running
  visualizerAnimation,  \* web: loop that owns the stored frame handle
  startDisabled,        \* #start-recording .disabled
  stopDisabled,         \* #stop-recording .disabled
  \* ---- review and export (server.js 894-898, renderer.js 12-15) ----
  transcriptSegments,   \* sequence of [start, end, text, speaker]
  analysisData,         \* entries [segmentIndex, isWorkRelated]
                        \* (desktop: analysisResults)
  reviewVisible,        \* #transcript-review is displayed
  nBoxes,               \* segment check boxes in the DOM, indexed from 0
  segChecked,           \* indexes of the checked segment check boxes
  summaryRequests,      \* filteredTranscript of each generate-summary call
                        \* in flight
  summaryData,          \* [set, of]; set = FALSE is null
                        \* (desktop: finalSummary)
  speakerAssignments,   \* web: segment index -> name
  exportRequest,        \* body of the latest generate-documents call
  exportBtnDisabled,    \* desktop: #export-document .disabled
  \* ---- speaker identification (server.js 905-906, #speaker-segments) ----
  speakerSamples,       \* web: samples [segmentIndex, startTime] last loaded
  speakerInputs,        \* the name fields in the DOM: [seg, value]
  detectedSpeakers,     \* web: the [name, segmentIndex] introductions of
                        \* the last analysis (server.js 905, 1376)
  snippetRequest,       \* web: segments of the extract-speaker-snippets
                        \* call in flight
  summaryCalls,         \* generate-summary calls made so far
  exportResult,         \* desktop: what the last 'generate-documents' call
                        \* returned, wrote and made the renderer report
  processingReport,     \* what the processing handlers last reported:
                        \* "running", "complete" or "error" (web: the
                        \* #progress-text and, for "error", the alert
                        \* of the catch; desktop: updateProgress, alert)
  \* ---- backend (server.js 56-71, express-session) ----
  db,                   \* Firestore was initialised
  storage,              \* the storage bucket was initialised
  sessions,             \* req.session of each browser session
  users,                \* the users collection
  openaiClient,         \* the key of the client in the global, or Null
  res,                  \* the response last sent and what its handler did
  \* ---- a caller of crypto-utils ----
  plainText,            \* the text given to encrypt
  usedSalt,             \* the salt that call drew
  usedIv,               \* the IV that call drew
  storedData,           \* what encrypt returned
  decryptedText,        \* what decrypt returned for it
  cryptoPc              \* "start" | "encrypted" | "decrypted"

stepVars == <<currentStep, prevDisabled, nextDisabled>>
keyVars == <<isAuthenticated, apiKeyConfigured, keyValidated, continueShown,
             saveBtnDisabled>>
micVars == <<micListed, micChecked, selectedMicrophones>>

recVars == <<starts, tasks, streams, audioStreams, audioContext, ctxOpen,
             recorders, mediaRecorder, timers, recordingTimer, vizLoops,
             visualizerAnimation, startDisabled, stopDisabled>>

revVars == <<transcriptSegments, analysisData, reviewVisible, nBoxes,
             segChecked, summaryRequests, summaryData, speakerAssignments,
             exportRequest, exportBtnDisabled>>

spkVars == <<speakerSamples, speakerInputs, snippetRequest, detectedSpeakers>>

capVars == <<summaryCalls, exportResult, processingReport>>

srvVars == <<db, storage, sessions, users, openaiClient, res>>

cryVars == <<plainText, usedSalt, usedIv, storedData, decryptedText,
             cryptoPc>>

\* what the wizard's handlers leave alone
backVars == <<srvVars, cryVars>>

Kinds == {"authStatus", "login", "checkConfig", "initOpenai", "loadMics",
          "detectMics", "onstop", "saveAudio", "transcribe", "analyze",
          "reviewTimer", "speakerTimer", "export", "snippets"}

wizVars == <<app, stepVars, keyVars, micVars, pend, recVars, revVars,
             spkVars, capVars>>

NoPending == [k \in Kinds |-> 0]

\* calls of one kind in flight are capped at MaxPending
CanSend(k) == pend[k] < MaxPending
Send(k) == CanSend(k) /\ pend' = [pend EXCEPT ![k] = @ + 1]
Recv(k) == pend' = [pend EXCEPT ![k] = @ - 1]
\* an event the browser queues; there is at most one per recorder
Queue(k) == pend' = [pend EXCEPT ![k] = @ + 1]
\* one call answered, another issued by the same handler
Chain(k, k2) == CanSend(k2) /\ pend' = [pend EXCEPT ![k] = @ - 1, ![k2] = @ + 1]

(***************************************************************************)
(* Sequence helpers                                                        *)
(***************************************************************************)
Range(s) == {s[i] : i \in 1..Len(s)}

Includes(s, x) == x \in Range(s)

\* Array.prototype.filter(id => id !== x)
FilterOut(s, x) == SelectSeq(s, LAMBDA e : e # x)

RECURSIVE SetToSeq(_)
\* the checked boxes in document order (device ids ascend with the index)
SetToSeq(S) ==
  IF S = {} THEN <<>>
  ELSE LET m == CHOOSE x \in S : \A y \in S : x <= y
       IN <<m>> \o SetToSeq(S \ {m})

(***************************************************************************)
(* Step management                                                         *)
(***************************************************************************)
\* web: showStep + updateNavigationButtons; #next-step is never written
showStep(stepNumber) ==
  /\ currentStep' = stepNumber
  /\ prevDisabled' = (stepNumber = 1)
  /\ UNCHANGED nextDisabled

\* desktop: goToStep + updateNavigationButtons
goToStep(step) ==
  IF step < 1 \/ step > 6
  THEN UNCHANGED <<currentStep, prevDisabled, nextDisabled>>
  ELSE /\ currentStep' = step
       /\ prevDisabled' = (step = 1)
       /\ nextDisabled' = (step = 6)

\* desktop: canNavigateToStep
canNavigateToStep(step) ==
  \/ step < currentStep
  \/ (step = 2 /\ apiKeyConfigured)

(***************************************************************************)
(* Web wizard, steps 0-2 (server.js 950-1163, 1876-1887)                   *)
(*                                                                         *)
(* A step's own controls can be used while that step is the active one.    *)
(* index.html is not among the sources: a control starts in the state the  *)
(* script's own update rule gives it for the initial program state, and    *)
(* #next-step of the web app, which the script never writes, is enabled.   *)
(***************************************************************************)
\* checkAuthStatus, after the fetch of /api/auth/status settles
Web_checkAuthStatus(authenticated) ==
  /\ app = "web"
  /\ pend["authStatus"] > 0
  /\ IF authenticated
     THEN /\ isAuthenticated' = TRUE
          /\ showStep(1)
          /\ Chain("authStatus", "checkConfig")
     ELSE /\ Recv("authStatus")
          /\ UNCHANGED <<isAuthenticated, stepVars>>
  /\ UNCHANGED <<backVars, capVars, spkVars, recVars, revVars, app, apiKeyConfigured, keyValidated, continueShown,
                 saveBtnDisabled, micVars>>

\* handleLogin up to its fetch (empty fields only alert)
Web_handleLogin ==
  /\ app = "web"
  /\ currentStep = 0
  /\ CanSend("login")
  /\ Send("login")
  /\ UNCHANGED <<backVars, capVars, spkVars, recVars, revVars, app, stepVars, keyVars, micVars>>

\* handleLogin after the fetch of /api/auth/login settles
Web_loginResponse(success, hasApiKey) ==
  /\ app = "web"
  /\ pend["login"] > 0
  /\ IF success
     THEN /\ isAuthenticated' = TRUE
          /\ showStep(1)
          /\ IF hasApiKey THEN Chain("login", "checkConfig")
                          ELSE Recv("login")
     ELSE /\ Recv("login")
          /\ UNCHANGED <<isAuthenticated, stepVars>>
  /\ UNCHANGED <<backVars, capVars, spkVars, recVars, revVars, app, apiKeyConfigured, keyValidated, continueShown,
                 saveBtnDisabled, micVars>>

\* checkApiKeyStatus after its fetch: "saved" | "nokey" | "error"
Web_checkApiKeyStatus(outcome) ==
  /\ app = "web"
  /\ pend["checkConfig"] > 0
  /\ Recv("checkConfig")
  /\ CASE outcome = "saved" -> /\ continueShown' = TRUE
                               /\ keyValidated' = TRUE
       [] outcome = "nokey" -> /\ continueShown' = FALSE
                               /\ UNCHANGED keyValidated
       [] OTHER -> UNCHANGED <<continueShown, keyValidated>>
  /\ UNCHANGED <<backVars, capVars, spkVars, recVars, revVars, app, stepVars, isAuthenticated, apiKeyConfigured,
                 saveBtnDisabled, micVars>>

\* #save-api-key click up to its fetch
Web_saveApiKey ==
  /\ app = "web"
  /\ currentStep = 1
  /\ CanSend("initOpenai")
  /\ Send("initOpenai")
  /\ UNCHANGED <<backVars, capVars, spkVars, recVars, revVars, app, stepVars, keyVars, micVars>>

\* #save-api-key click after the fetch of /api/init-openai settles
Web_initOpenaiResponse(success) ==
  /\ app = "web"
  /\ pend["initOpenai"] > 0
  /\ IF success
     THEN /\ keyValidated' = TRUE
          /\ showStep(2)
          /\ Chain("initOpenai", "loadMics")
     ELSE /\ Recv("initOpenai")
          /\ UNCHANGED <<keyValidated, stepVars>>
  /\ UNCHANGED <<backVars, capVars, spkVars, recVars, revVars, app, isAuthenticated, apiKeyConfigured, continueShown,
                 saveBtnDisabled, micVars>>

\* #change-api-key click
Web_changeApiKey ==
  /\ app = "web"
  /\ currentStep = 1
  /\ continueShown
  /\ continueShown' = FALSE
  /\ UNCHANGED <<backVars, capVars, spkVars, recVars, revVars, app, stepVars, isAuthenticated, apiKeyConfigured,
                 keyValidated, saveBtnDisabled, micVars, pend>>

\* #continue-with-api click
Web_continueWithApi ==
  /\ app = "web"
  /\ currentStep = 1
  /\ continueShown
  /\ showStep(2)
  /\ Send("loadMics")
  /\ UNCHANGED <<backVars, capVars, spkVars, recVars, revVars, app, keyVars, micVars>>

\* loadMicrophones after getUserMedia / enumerateDevices settle
Web_loadMicrophones(granted) ==
  /\ app = "web"
  /\ pend["loadMics"] > 0
  /\ Recv("loadMics")
  /\ IF granted
     THEN /\ micListed' = TRUE
          /\ micChecked' = {1}
          /\ selectedMicrophones' = <<1>>
     ELSE UNCHANGED micVars
  /\ UNCHANGED <<backVars, capVars, spkVars, recVars, revVars, app, stepVars, keyVars>>

\* change event of a microphone check box
Web_micChange(d) ==
  /\ app = "web"
  /\ currentStep = 2
  /\ micListed
  /\ IF d \notin micChecked
     THEN /\ micChecked' = micChecked \cup {d}
          /\ selectedMicrophones' =
               IF Includes(selectedMicrophones, d) THEN selectedMicrophones
               ELSE Append(selectedMicrophones, d)
     ELSE /\ micChecked' = micChecked \ {d}
          /\ selectedMicrophones' = FilterOut(selectedMicrophones, d)
  /\ UNCHANGED <<backVars, capVars, spkVars, recVars, revVars, app, stepVars, keyVars, micListed, pend>>

\* #next-to-recording click
Web_nextToRecording ==
  /\ app = "web"
  /\ currentStep = 2
  /\ Len(selectedMicrophones) # 0
  /\ showStep(3)
  /\ UNCHANGED <<backVars, capVars, spkVars, recVars, revVars, app, keyVars, micVars, pend>>

\* #prev-step click
Web_prevStep ==
  /\ app = "web"
  /\ ~prevDisabled
  /\ currentStep > 1
  /\ showStep(currentStep - 1)
  /\ UNCHANGED <<backVars, capVars, spkVars, recVars, revVars, app, keyVars, micVars, pend>>

\* #next-step click
Web_nextStep ==
  /\ app = "web"
  /\ ~nextDisabled
  /\ currentStep < 6
  /\ showStep(currentStep + 1)
  /\ UNCHANGED <<backVars, capVars, spkVars, recVars, revVars, app, keyVars, micVars, pend>>

(***************************************************************************)
(* Desktop wizard, steps 1-2 (renderer.js 17-147, 691-730)                 *)
(***************************************************************************)
\* detectMicrophones after enumerateDevices settles
Desk_detectMicrophones(ok) ==
  /\ app = "desktop"
  /\ pend["detectMics"] > 0
  /\ Recv("detectMics")
  /\ micListed' = ok
  /\ UNCHANGED <<backVars, capVars, spkVars, recVars, revVars, app, stepVars, keyVars, micChecked, selectedMicrophones>>

\* the user ticks or clears a microphone check box (no listener attached)
Desk_micToggle(d) ==
  /\ app = "desktop"
  /\ currentStep = 2
  /\ micListed
  /\ micChecked' = IF d \in micChecked THEN micChecked \ {d}
                   ELSE micChecked \cup {d}
  /\ UNCHANGED <<backVars, capVars, spkVars, recVars, revVars, app, stepVars, keyVars, micListed, selectedMicrophones, pend>>

\* saveApiKey up to the await of ipcRenderer.invoke('init-openai')
Desk_saveApiKey ==
  /\ app = "desktop"
  /\ currentStep = 1
  /\ ~saveBtnDisabled
  /\ saveBtnDisabled' = TRUE
  /\ Send("initOpenai")
  /\ UNCHANGED <<backVars, capVars, spkVars, recVars, revVars, app, stepVars, isAuthenticated, apiKeyConfigured,
                 keyValidated, continueShown, micVars>>

\* saveApiKey after the await
Desk_saveApiKeyResult(success) ==
  /\ app = "desktop"
  /\ pend["initOpenai"] > 0
  /\ Recv("initOpenai")
  /\ IF success
     THEN /\ apiKeyConfigured' = TRUE
          /\ keyValidated' = TRUE
          /\ goToStep(2)
     ELSE UNCHANGED <<apiKeyConfigured, keyValidated, stepVars>>
  /\ saveBtnDisabled' = FALSE
  /\ UNCHANGED <<backVars, capVars, spkVars, recVars, revVars, app, isAuthenticated, continueShown, micVars>>

\* validateMicrophoneSelection: the selection is read off the check boxes
validateMicrophoneSelection == SetToSeq(micChecked)

\* #next-to-recording click
Desk_nextToRecording ==
  /\ app = "desktop"
  /\ currentStep = 2
  /\ selectedMicrophones' = validateMicrophoneSelection
  /\ IF Len(selectedMicrophones') = 0
     THEN UNCHANGED stepVars
     ELSE goToStep(3)
  /\ UNCHANGED <<backVars, capVars, spkVars, recVars, revVars, app, keyVars, micListed, micChecked, pend>>

\* #prev-step click
Desk_prevStep ==
  /\ app = "desktop"
  /\ ~prevDisabled
  /\ goToStep(currentStep - 1)
  /\ UNCHANGED <<backVars, capVars, spkVars, recVars, revVars, app, keyVars, micVars, pend>>

\* #next-step click
Desk_nextStep ==
  /\ app = "desktop"
  /\ ~nextDisabled
  /\ goToStep(currentStep + 1)
  /\ UNCHANGED <<backVars, capVars, spkVars, recVars, revVars, app, keyVars, micVars, pend>>

\* click on a step dot
Desk_stepDot(step) ==
  /\ app = "desktop"
  /\ canNavigateToStep(step)
  /\ goToStep(step)
  /\ UNCHANGED <<backVars, capVars, spkVars, recVars, revVars, app, keyVars, micVars, pend>>

(***************************************************************************)
(* Recording, step 3                                                       *)
(* A session is one call of startRecording; its AudioContext, MediaRecorder,*)
(* interval and animation loop carry the session's number.                 *)
(***************************************************************************)
Sessions == 1..MaxStarts

NoRecorder == [state |-> "none", src |-> {}, sel |-> <<>>]

\* a stream as getUserMedia returns it: all tracks live
NewStream(dev, sid) == [dev |-> dev, live |-> TRUE, by |-> sid]

\* track.stop() on every track of the streams in S
StopTracks(S) ==
  [s \in DOMAIN streams |->
     IF s \in S THEN [streams[s] EXCEPT !.live = FALSE] ELSE streams[s]]

\* web startRecording from "Setup audio context and mixer" to the end:
\* every stream of the global audioStreams (value as) is connected
Web_setupRecording(sid, sel, as) ==
  /\ audioContext' = sid
  /\ ctxOpen' = ctxOpen \cup {sid}
  /\ vizLoops' = vizLoops \cup {sid}
  /\ visualizerAnimation' = sid
  /\ recorders' = [recorders EXCEPT ![sid] =
                     [state |-> "recording", src |-> Range(as), sel |-> sel]]
  /\ mediaRecorder' = sid
  /\ startDisabled' = TRUE
  /\ stopDisabled' = FALSE
  /\ timers' = timers \cup {sid}
  /\ recordingTimer' = sid

\* #start-recording click: startRecording up to its first await; with no
\* microphone selected the loop body never runs and nothing is awaited
Web_startRecording ==
  /\ app = "web"
  /\ currentStep = 3
  /\ ~startDisabled
  /\ starts < MaxStarts
  /\ starts' = starts + 1
  /\ audioStreams' = <<>>
  /\ IF Len(selectedMicrophones) = 0
     THEN /\ Web_setupRecording(starts + 1, <<>>, <<>>)
          /\ UNCHANGED tasks
     ELSE /\ tasks' = tasks \cup
                 {[id |-> starts + 1, sel |-> selectedMicrophones, i |-> 0]}
          /\ UNCHANGED <<audioContext, ctxOpen, recorders, mediaRecorder,
                         timers, recordingTimer, vizLoops,
                         visualizerAnimation, startDisabled, stopDisabled>>
  /\ UNCHANGED <<backVars, capVars, spkVars, revVars, app, stepVars, keyVars, micVars, pend, streams>>

\* one getUserMedia of the loop resolves; after the last one the rest of
\* startRecording runs in the same turn
Web_getUserMediaResolved(t) ==
  /\ app = "web"
  /\ t \in tasks
  /\ LET dev == t.sel[t.i + 1]
         sidx == Len(streams) + 1
         as == Append(audioStreams, sidx)
     IN /\ streams' = Append(streams, NewStream(dev, t.id))
        /\ audioStreams' = as
        /\ IF t.i + 1 = Len(t.sel)
           THEN /\ tasks' = tasks \ {t}
                /\ Web_setupRecording(t.id, t.sel, as)
           ELSE /\ tasks' = (tasks \ {t}) \cup {[t EXCEPT !.i = @ + 1]}
                /\ UNCHANGED <<audioContext, ctxOpen, recorders,
                               mediaRecorder, timers, recordingTimer,
                               vizLoops, visualizerAnimation, startDisabled,
                               stopDisabled>>
  /\ UNCHANGED <<backVars, capVars, spkVars, revVars, app, stepVars, keyVars, micVars, pend, starts>>

\* a getUserMedia rejects: the catch block alerts and nothing else
Web_getUserMediaRejected(t) ==
  /\ app = "web"
  /\ t \in tasks
  /\ tasks' = tasks \ {t}
  /\ UNCHANGED <<backVars, capVars, spkVars, revVars, app, stepVars, keyVars, micVars, pend, starts, streams,
                 audioStreams, audioContext, ctxOpen, recorders,
                 mediaRecorder, timers, recordingTimer, vizLoops,
                 visualizerAnimation, startDisabled, stopDisabled>>

\* an animation frame of loop k: draw() stores the handle of its next frame
Web_draw(k) ==
  /\ app = "web"
  /\ k \in vizLoops
  /\ visualizerAnimation # k
  /\ visualizerAnimation' = k
  /\ UNCHANGED <<backVars, capVars, spkVars, revVars, app, stepVars, keyVars, micVars, pend, starts, tasks,
                 streams, audioStreams, audioContext, ctxOpen, recorders,
                 mediaRecorder, timers, recordingTimer, vizLoops,
                 startDisabled, stopDisabled>>

\* #stop-recording click: stopRecording
Web_stopRecording ==
  /\ app = "web"
  /\ currentStep = 3
  /\ ~stopDisabled
  /\ IF mediaRecorder # 0 /\ recorders[mediaRecorder].state # "inactive"
     THEN /\ recorders' = [recorders EXCEPT ![mediaRecorder].state = "inactive"]
          /\ Queue("onstop")
          /\ timers' = timers \ {recordingTimer}
          /\ streams' = StopTracks(Range(audioStreams))
          /\ vizLoops' = vizLoops \ {visualizerAnimation}
          /\ ctxOpen' = IF audioContext # 0 THEN ctxOpen \ {audioContext}
                        ELSE ctxOpen
          /\ startDisabled' = FALSE
          /\ stopDisabled' = TRUE
     ELSE UNCHANGED <<recorders, pend, timers, streams, vizLoops, ctxOpen,
                      startDisabled, stopDisabled>>
  /\ UNCHANGED <<backVars, capVars, spkVars, revVars, app, stepVars, keyVars, micVars, starts, tasks, audioStreams,
                 audioContext, mediaRecorder, recordingTimer,
                 visualizerAnimation>>

\* desktop: only selectedMicrophones[0] is requested; with an empty
\* selection deviceId is undefined and the default input (0) is opened
Desk_requestedDevice(sel) == IF Len(sel) = 0 THEN 0 ELSE sel[1]

\* #start-recording click: startRecording up to the await of getUserMedia
Desk_startRecording ==
  /\ app = "desktop"
  /\ currentStep = 3
  /\ ~startDisabled
  /\ starts < MaxStarts
  /\ starts' = starts + 1
  /\ tasks' = tasks \cup
        {[id |-> starts + 1, sel |-> selectedMicrophones, i |-> 0]}
  /\ UNCHANGED <<backVars, capVars, spkVars, revVars, app, stepVars, keyVars, micVars, pend, streams, audioStreams,
                 audioContext, ctxOpen, recorders, mediaRecorder, timers,
                 recordingTimer, vizLoops, visualizerAnimation,
                 startDisabled, stopDisabled>>

\* getUserMedia resolves: setupAudioVisualizer (a context and a loop held
\* in locals only), the MediaRecorder on the stream, the UI, the timer
Desk_getUserMediaResolved(t) ==
  /\ app = "desktop"
  /\ t \in tasks
  /\ tasks' = tasks \ {t}
  /\ LET sidx == Len(streams) + 1
     IN /\ streams' = Append(streams, NewStream(Desk_requestedDevice(t.sel), t.id))
        /\ recorders' = [recorders EXCEPT ![t.id] =
                           [state |-> "recording", src |-> {sidx}, sel |-> t.sel]]
  /\ ctxOpen' = ctxOpen \cup {t.id}
  /\ vizLoops' = vizLoops \cup {t.id}
  /\ mediaRecorder' = t.id
  /\ startDisabled' = TRUE
  /\ stopDisabled' = FALSE
  /\ timers' = timers \cup {t.id}
  /\ recordingTimer' = t.id
  /\ UNCHANGED <<backVars, capVars, spkVars, revVars, app, stepVars, keyVars, micVars, pend, starts, audioStreams,
                 audioContext, visualizerAnimation>>

\* getUserMedia rejects: the catch block alerts and nothing else
Desk_getUserMediaRejected(t) ==
  /\ app = "desktop"
  /\ t \in tasks
  /\ tasks' = tasks \ {t}
  /\ UNCHANGED <<backVars, capVars, spkVars, revVars, app, stepVars, keyVars, micVars, pend, starts, streams,
                 audioStreams, audioContext, ctxOpen, recorders,
                 mediaRecorder, timers, recordingTimer, vizLoops,
                 visualizerAnimation, startDisabled, stopDisabled>>

\* #stop-recording click: stopRecording
Desk_stopRecording ==
  /\ app = "desktop"
  /\ currentStep = 3
  /\ ~stopDisabled
  /\ IF mediaRecorder # 0 /\ recorders[mediaRecorder].state # "inactive"
     THEN /\ recorders' = [recorders EXCEPT ![mediaRecorder].state = "inactive"]
          /\ Queue("onstop")
          /\ streams' = StopTracks(recorders[mediaRecorder].src)
          /\ startDisabled' = FALSE
          /\ stopDisabled' = TRUE
          /\ timers' = timers \ {recordingTimer}
     ELSE UNCHANGED <<recorders, pend, streams, startDisabled, stopDisabled,
                      timers>>
  /\ UNCHANGED <<backVars, capVars, spkVars, revVars, app, stepVars, keyVars, micVars, starts, tasks, audioStreams,
                 audioContext, ctxOpen, mediaRecorder, recordingTimer,
                 vizLoops, visualizerAnimation>>

(***************************************************************************)
(* What the external services may return                                   *)
(***************************************************************************)
\* a Whisper segment; its text is named by its position
Segment(i) == [start |-> 20 * (i - 1), end |-> 20 * (i - 1) + 10, text |-> i,
               speaker |-> ""]

Transcripts == {[i \in 1..n |-> Segment(i)] : n \in 0..MaxSegs}

AnalysisEntries == [segmentIndex : 0..(MaxSegs - 1), isWorkRelated : BOOLEAN]

\* the introductions the language model reports: none, or the name "Ann"
\* with the index of some segment of the prompt
DetectedSpeakerLists ==
  {<<>>} \cup {<<[name |-> "Ann", segmentIndex |-> i]>> : i \in 0..(MaxSegs - 1)}

\* the classification the language model returns: any list of entries
Analyses == UNION {[1..n -> AnalysisEntries] : n \in 0..MaxEntries}

NoSummary == [set |-> FALSE, of |-> <<>>]

NoExport == [sent |-> FALSE, lines |-> <<>>, summary |-> NoSummary]

\* no 'generate-documents' call has returned yet
NoResult == [success |-> FALSE, error |-> "", written |-> {}, alert |-> ""]

(***************************************************************************)
(* Transcript review, step 4                                               *)
(***************************************************************************)
\* Array.prototype.find(a => a.segmentIndex === index): position of the
\* first match, 0 when there is none
FindAnalysis(an, index) ==
  IF \E j \in 1..Len(an) : an[j].segmentIndex = index
  THEN CHOOSE j \in 1..Len(an) :
         /\ an[j].segmentIndex = index
         /\ \A k \in 1..(j - 1) : an[k].segmentIndex # index
  ELSE 0

\* a box that starts cleared when the analysis has no entry for it
InitiallyChecked_noDefault(an, index) ==
  LET j == FindAnalysis(an, index)
  IN IF j = 0 THEN FALSE ELSE an[j].isWorkRelated

\* the initial state of check box index (web: the default object
\* { isWorkRelated: true }; desktop: analysis ? analysis.isWorkRelated : true)
InitiallyChecked(an, index) ==
  LET j == FindAnalysis(an, index)
  IN IF j = 0 THEN TRUE ELSE an[j].isWorkRelated

\* displayTranscriptReview / displayTranscriptSegments: one box per segment
displayTranscriptReview ==
  /\ nBoxes' = Len(transcriptSegments)
  /\ segChecked' = {i \in 0..(Len(transcriptSegments) - 1) :
                      InitiallyChecked(analysisData, i)}
  /\ reviewVisible' = TRUE

RECURSIVE SelectedFrom(_, _, _)
\* the forEach / filter over the check boxes: segments whose box is checked
\* and which exist in transcriptSegments, in index order from index i
SelectedFrom(i, n, checked) ==
  IF i >= n THEN <<>>
  ELSE (IF i \in checked /\ i + 1 <= Len(transcriptSegments)
        THEN <<i>> ELSE <<>>) \o SelectedFrom(i + 1, n, checked)

\* web: the boxes decide; desktop: the segments are filtered by their box
Web_selected == SelectedFrom(0, nBoxes, segChecked)
Desk_included ==
  SelectedFrom(0, Len(transcriptSegments),
               {i \in segChecked : i < nBoxes})

\* selectedSegments.map(seg => seg.text)
TextsOf(idxs) == [k \in 1..Len(idxs) |-> transcriptSegments[idxs[k] + 1].text]

\* toggling the check boxes in S (a click on one box, or all of them)
SetBoxes(newChecked) ==
  /\ currentStep = 4
  /\ reviewVisible
  /\ segChecked' = newChecked
  /\ UNCHANGED <<backVars, capVars, spkVars, app, stepVars, keyVars, micVars, pend, recVars,
                 transcriptSegments, analysisData, reviewVisible, nBoxes,
                 summaryRequests, summaryData, speakerAssignments,
                 exportRequest, exportBtnDisabled>>

AllBoxes == 0..(nBoxes - 1)

Toggle(i) == IF i \in segChecked THEN segChecked \ {i} ELSE segChecked \cup {i}

(***************************************************************************)
(* Web wizard, steps 4-6 (server.js 1321-1482, 1665-1676, 1789-1868)       *)
(* The name fields of step 5 and #apply-speakers follow further down.      *)
(***************************************************************************)
\* the recorder's stop event: handleRecordingComplete up to the first fetch
Web_handleRecordingComplete ==
  /\ app = "web"
  /\ pend["onstop"] > 0
  /\ showStep(4)
  /\ processingReport' = "running"
  /\ Chain("onstop", "transcribe")
  /\ UNCHANGED <<backVars, summaryCalls, exportResult, spkVars, app, keyVars, micVars, recVars, revVars>>

\* handleRecordingComplete after /api/transcribe settles
Web_transcribeResponse(success, tr) ==
  /\ app = "web"
  /\ pend["transcribe"] > 0
  /\ IF success
     THEN /\ transcriptSegments' = tr
          /\ Chain("transcribe", "analyze")
          /\ UNCHANGED processingReport
     ELSE /\ Recv("transcribe")
          /\ UNCHANGED transcriptSegments
          /\ processingReport' = "error"
  /\ UNCHANGED <<backVars, summaryCalls, exportResult, spkVars, app, stepVars, keyVars, micVars, recVars, analysisData,
                 reviewVisible, nBoxes, segChecked, summaryRequests,
                 summaryData, speakerAssignments, exportRequest,
                 exportBtnDisabled>>

\* handleRecordingComplete after /api/analyze-transcript settles
Web_analyzeResponse(success, an, detected) ==
  /\ app = "web"
  /\ pend["analyze"] > 0
  /\ IF success
     THEN /\ analysisData' = an
          /\ detectedSpeakers' = detected
          /\ Chain("analyze", "reviewTimer")
          /\ processingReport' = "complete"
     ELSE /\ Recv("analyze")
          /\ detected = <<>>
          /\ UNCHANGED <<analysisData, detectedSpeakers>>
          /\ processingReport' = "error"
  /\ UNCHANGED <<backVars, summaryCalls, exportResult, speakerSamples,
                 speakerInputs, snippetRequest, app, stepVars, keyVars, micVars, recVars,
                 transcriptSegments, reviewVisible, nBoxes, segChecked,
                 summaryRequests, summaryData, speakerAssignments,
                 exportRequest, exportBtnDisabled>>

\* the 500 ms timer of handleRecordingComplete: displayTranscriptReview
Web_displayTranscriptReview ==
  /\ app = "web"
  /\ pend["reviewTimer"] > 0
  /\ Recv("reviewTimer")
  /\ displayTranscriptReview
  /\ UNCHANGED <<backVars, capVars, spkVars, app, stepVars, keyVars, micVars, recVars,
                 transcriptSegments, analysisData, summaryRequests,
                 summaryData, speakerAssignments, exportRequest,
                 exportBtnDisabled>>

\* change of segment check box i
Web_segmentCheckbox(i) ==
  /\ app = "web"
  /\ i \in AllBoxes
  /\ SetBoxes(Toggle(i))

\* #include-all click
Web_includeAll ==
  /\ app = "web"
  /\ SetBoxes(AllBoxes)

\* #exclude-all click
Web_excludeAll ==
  /\ app = "web"
  /\ SetBoxes({})

\* #start-processing click up to its fetch (an empty selection only alerts)
Web_startProcessing ==
  /\ app = "web"
  /\ currentStep = 4
  /\ reviewVisible
  /\ Len(summaryRequests) < MaxPending
  /\ Len(Web_selected) # 0
  /\ summaryRequests' = Append(summaryRequests, TextsOf(Web_selected))
  /\ summaryCalls < MaxSummaries
  /\ summaryCalls' = summaryCalls + 1
  /\ UNCHANGED <<exportResult, processingReport>>
  /\ UNCHANGED <<backVars, spkVars, app, stepVars, keyVars, micVars, pend, recVars,
                 transcriptSegments, analysisData, reviewVisible, nBoxes,
                 segChecked, summaryData, speakerAssignments, exportRequest,
                 exportBtnDisabled>>

\* displaySpeakerIdentification up to its fetch: the name fields are
\* replaced by a notice and the selected segments are sent
Web_displaySpeakerIdentification ==
  /\ speakerInputs' = <<>>
  /\ snippetRequest' = [k \in 1..Len(Web_selected) |->
                          transcriptSegments[Web_selected[k] + 1]]
  /\ Send("snippets")
  /\ UNCHANGED <<speakerSamples, detectedSpeakers>>

\* #start-processing click after /api/generate-summary settles for call k
Web_summaryResponse(k, success) ==
  /\ app = "web"
  /\ k \in 1..Len(summaryRequests)
  /\ summaryRequests' = [j \in 1..(Len(summaryRequests) - 1) |->
                           IF j < k THEN summaryRequests[j]
                           ELSE summaryRequests[j + 1]]
  /\ IF success
     THEN /\ summaryData' = [set |-> TRUE, of |-> summaryRequests[k]]
          /\ showStep(5)
          /\ Web_displaySpeakerIdentification
     ELSE UNCHANGED <<summaryData, stepVars, pend, spkVars>>
  /\ UNCHANGED <<backVars, capVars, app, keyVars, micVars, recVars, transcriptSegments,
                 analysisData, reviewVisible, nBoxes, segChecked,
                 speakerAssignments, exportRequest, exportBtnDisabled>>

\* #skip-speakers click; displayFinalReview only writes the page
Web_skipSpeakers ==
  /\ app = "web"
  /\ currentStep = 5
  /\ speakerAssignments' = [i \in segChecked |-> "Unknown Speaker"]
  /\ showStep(6)
  /\ UNCHANGED <<backVars, capVars, spkVars, app, keyVars, micVars, pend, recVars, transcriptSegments,
                 analysisData, reviewVisible, nBoxes, segChecked,
                 summaryRequests, summaryData, exportRequest,
                 exportBtnDisabled>>

\* every line given the speaker of the first assignment
Web_speakerOf_first(index) ==
  IF DOMAIN speakerAssignments = {} THEN "Unknown Speaker"
  ELSE speakerAssignments[CHOOSE i \in DOMAIN speakerAssignments :
                            \A o \in DOMAIN speakerAssignments : i <= o]

\* speakerAssignments[index] || 'Unknown Speaker'
Web_speakerOf(index) ==
  IF index \in DOMAIN speakerAssignments THEN speakerAssignments[index]
  ELSE "Unknown Speaker"

\* transcriptLines of the web export
Web_transcriptLines ==
  [k \in 1..Len(Web_selected) |->
     [speaker |-> Web_speakerOf(Web_selected[k]),
      text |-> transcriptSegments[Web_selected[k] + 1].text]]

\* #export-document click up to its fetch; reading summaryData.summary
\* throws while summaryData is null and the catch block alerts
Web_exportDocument ==
  /\ app = "web"
  /\ currentStep = 6
  /\ CanSend("export")
  /\ summaryData.set
  /\ exportRequest' = [sent |-> TRUE, lines |-> Web_transcriptLines,
                       summary |-> summaryData]
  /\ Send("export")
  /\ UNCHANGED <<backVars, capVars, spkVars, app, stepVars, keyVars, micVars, recVars,
                 transcriptSegments, analysisData, reviewVisible, nBoxes,
                 segChecked, summaryRequests, summaryData,
                 speakerAssignments, exportBtnDisabled>>

\* #export-document click after /api/generate-documents settles
Web_exportResponse ==
  /\ app = "web"
  /\ pend["export"] > 0
  /\ Recv("export")
  /\ UNCHANGED <<backVars, capVars, spkVars, app, stepVars, keyVars, micVars, recVars, revVars>>

(***************************************************************************)
(* Desktop wizard, steps 4-6 (renderer.js 266-447, 598-683)                *)
(* The name fields of step 5 and applySpeakers follow further down.        *)
(***************************************************************************)
\* the recorder's stop event: saveRecording up to the 'save-audio' call
Desk_saveRecording ==
  /\ app = "desktop"
  /\ pend["onstop"] > 0
  /\ Chain("onstop", "saveAudio")
  /\ UNCHANGED <<backVars, capVars, spkVars, app, stepVars, keyVars, micVars, recVars, revVars>>

\* saveRecording after 'save-audio'; processRecording up to 'transcribe-audio'
Desk_saveAudioResult(success) ==
  /\ app = "desktop"
  /\ pend["saveAudio"] > 0
  /\ IF success
     THEN /\ goToStep(4)
          /\ reviewVisible' = FALSE
          /\ Chain("saveAudio", "transcribe")
          /\ processingReport' = "running"
     ELSE /\ Recv("saveAudio")
          /\ UNCHANGED <<stepVars, reviewVisible>>
          /\ processingReport' = "error"
  /\ UNCHANGED <<backVars, summaryCalls, exportResult, spkVars, app, keyVars, micVars, recVars, transcriptSegments,
                 analysisData, nBoxes, segChecked, summaryRequests,
                 summaryData, speakerAssignments, exportRequest,
                 exportBtnDisabled>>

\* processRecording after 'transcribe-audio'
Desk_transcribeResult(success, tr) ==
  /\ app = "desktop"
  /\ pend["transcribe"] > 0
  /\ IF success
     THEN /\ transcriptSegments' = tr
          /\ Chain("transcribe", "analyze")
          /\ UNCHANGED processingReport
     ELSE /\ Recv("transcribe")
          /\ UNCHANGED transcriptSegments
          /\ processingReport' = "error"
  /\ UNCHANGED <<backVars, summaryCalls, exportResult, spkVars, app, stepVars, keyVars, micVars, recVars, analysisData,
                 reviewVisible, nBoxes, segChecked, summaryRequests,
                 summaryData, speakerAssignments, exportRequest,
                 exportBtnDisabled>>

\* processRecording after 'analyze-transcript'
Desk_analyzeResult(success, an) ==
  /\ app = "desktop"
  /\ pend["analyze"] > 0
  /\ IF success
     THEN /\ analysisData' = an
          /\ Chain("analyze", "reviewTimer")
          /\ processingReport' = "complete"
     ELSE /\ Recv("analyze")
          /\ UNCHANGED analysisData
          /\ processingReport' = "error"
  /\ UNCHANGED <<backVars, summaryCalls, exportResult, spkVars, app, stepVars, keyVars, micVars, recVars,
                 transcriptSegments, reviewVisible, nBoxes, segChecked,
                 summaryRequests, summaryData, speakerAssignments,
                 exportRequest, exportBtnDisabled>>

\* the 500 ms timer of processRecording: displayTranscriptSegments
Desk_displayTranscriptSegments ==
  /\ app = "desktop"
  /\ pend["reviewTimer"] > 0
  /\ Recv("reviewTimer")
  /\ displayTranscriptReview
  /\ UNCHANGED <<backVars, capVars, spkVars, app, stepVars, keyVars, micVars, recVars,
                 transcriptSegments, analysisData, summaryRequests,
                 summaryData, speakerAssignments, exportRequest,
                 exportBtnDisabled>>

\* toggleSegment: change of segment check box i
Desk_toggleSegment(i) ==
  /\ app = "desktop"
  /\ i \in AllBoxes
  /\ SetBoxes(Toggle(i))

\* includeAllSegments
Desk_includeAllSegments ==
  /\ app = "desktop"
  /\ SetBoxes(AllBoxes)

\* excludeAllSegments
Desk_excludeAllSegments ==
  /\ app = "desktop"
  /\ SetBoxes({})

\* generateSummary up to the 'generate-summary' call (no included segment
\* only alerts); the step changes before the call
Desk_generateSummary ==
  /\ app = "desktop"
  /\ currentStep = 4
  /\ reviewVisible
  /\ Len(summaryRequests) < MaxPending
  /\ Len(Desk_included) # 0
  /\ goToStep(5)
  /\ summaryRequests' = Append(summaryRequests, TextsOf(Desk_included))
  /\ summaryCalls < MaxSummaries
  /\ summaryCalls' = summaryCalls + 1
  /\ UNCHANGED <<exportResult, processingReport>>
  /\ UNCHANGED <<backVars, spkVars, app, keyVars, micVars, pend, recVars, transcriptSegments,
                 analysisData, reviewVisible, nBoxes, segChecked,
                 summaryData, speakerAssignments, exportRequest,
                 exportBtnDisabled>>

\* generateSummary after call k settles
Desk_summaryResult(k, success) ==
  /\ app = "desktop"
  /\ k \in 1..Len(summaryRequests)
  /\ summaryRequests' = [j \in 1..(Len(summaryRequests) - 1) |->
                           IF j < k THEN summaryRequests[j]
                           ELSE summaryRequests[j + 1]]
  /\ IF success
     THEN /\ summaryData' = [set |-> TRUE, of |-> summaryRequests[k]]
          /\ Send("speakerTimer")
     ELSE UNCHANGED <<summaryData, pend>>
  /\ UNCHANGED <<backVars, capVars, spkVars, app, stepVars, keyVars, micVars, recVars,
                 transcriptSegments, analysisData, reviewVisible, nBoxes,
                 segChecked, speakerAssignments, exportRequest,
                 exportBtnDisabled>>

\* displaySpeakerIdentification: one empty name field per included segment,
\* carrying the segment's index in transcriptSegments
Desk_displaySpeakerIdentification ==
  /\ speakerInputs' = [k \in 1..Len(Desk_included) |->
                         [seg |-> Desk_included[k], value |-> ""]]
  /\ UNCHANGED <<speakerSamples, snippetRequest, detectedSpeakers>>

\* the 500 ms timer of generateSummary: displaySpeakerIdentification
Desk_speakerTimer ==
  /\ app = "desktop"
  /\ pend["speakerTimer"] > 0
  /\ Recv("speakerTimer")
  /\ Desk_displaySpeakerIdentification
  /\ UNCHANGED <<backVars, capVars, app, stepVars, keyVars, micVars, recVars, revVars>>

\* #skip-speakers click; displayFinalReview only writes the page
Desk_skipSpeakers ==
  /\ app = "desktop"
  /\ currentStep = 5
  /\ goToStep(6)
  /\ UNCHANGED <<backVars, capVars, spkVars, app, keyVars, micVars, pend, recVars, revVars>>

\* formatTime of the renderer: minutes and seconds
Desk_formatTime(seconds) == <<seconds \div 60, seconds % 60>>

\* seg.speaker || 'Unknown Speaker'
Desk_speakerOf(seg) == IF seg.speaker = "" THEN "Unknown Speaker" ELSE seg.speaker

\* transcriptLines of the desktop export
Desk_transcriptLines ==
  [k \in 1..Len(Desk_included) |->
     LET seg == transcriptSegments[Desk_included[k] + 1]
     IN [speaker |-> Desk_speakerOf(seg), text |-> seg.text,
         timestamp |-> Desk_formatTime(seg.start)]]

\* what the main process can meet while it handles 'generate-documents':
\* Packer.toBuffer throws, the folder dialog is cancelled, the first or the
\* second fs.writeFile throws, or both files are written
SaveOutcomes == {"packer", "cancelled", "failSummary", "failTranscript", "saved"}

\* ipcMain.handle('generate-documents'): the result it returns and the
\* files it wrote.  Without exportFormats.word nothing is built or asked:
\* the initial result, success false and no error, is returned.
generateDocuments(exportFormats, outcome) ==
  IF ~exportFormats.word
  THEN [success |-> FALSE, error |-> "undefined", written |-> {}]
  ELSE CASE outcome = "packer" ->
              [success |-> FALSE, error |-> "message", written |-> {}]
         [] outcome = "cancelled" ->
              [success |-> FALSE, error |-> "Save cancelled", written |-> {}]
         [] outcome = "failSummary" ->
              [success |-> FALSE, error |-> "message", written |-> {}]
         [] outcome = "failTranscript" ->
              [success |-> FALSE, error |-> "message",
               written |-> {"Summary"}]
         [] OTHER ->
              [success |-> TRUE, error |-> "undefined",
               written |-> {"Summary", "Transcript"}]

\* the alert exportDocument shows for a result, "" for none
Desk_exportAlert(result) ==
  IF result.success THEN "Documents generated successfully"
  ELSE IF result.error # "Save cancelled" THEN "Error" ELSE ""

\* exportDocument up to the 'generate-documents' call; without a format it
\* alerts and returns, and reading finalSummary.summary throws while
\* finalSummary is null: both paths leave the button enabled
Desk_exportDocument(word, pdf) ==
  /\ app = "desktop"
  /\ currentStep = 6
  /\ ~exportBtnDisabled
  /\ IF ~word /\ ~pdf
     THEN /\ exportResult' = [NoResult EXCEPT
                                !.alert = "Please select at least one export format"]
          /\ UNCHANGED <<exportRequest, exportBtnDisabled, pend>>
     ELSE /\ CanSend("export")
          /\ summaryData.set
          /\ exportBtnDisabled' = TRUE
          /\ exportRequest' = [sent |-> TRUE, lines |-> Desk_transcriptLines,
                               summary |-> summaryData,
                               formats |-> [word |-> word, pdf |-> pdf]]
          /\ Send("export")
          /\ UNCHANGED exportResult
  /\ UNCHANGED <<backVars, summaryCalls, processingReport, spkVars, app,
                 stepVars, keyVars,
                 micVars, recVars,
                 transcriptSegments, analysisData, reviewVisible, nBoxes,
                 segChecked, summaryRequests, summaryData,
                 speakerAssignments>>

\* exportDocument after 'generate-documents' settles
Desk_exportResult(outcome) ==
  /\ app = "desktop"
  /\ pend["export"] > 0
  /\ Recv("export")
  /\ exportBtnDisabled' = FALSE
  /\ LET result == generateDocuments(exportRequest.formats, outcome)
     IN exportResult' = [success |-> result.success,
                         error |-> result.error,
                         written |-> result.written,
                         alert |-> Desk_exportAlert(result)]
  /\ UNCHANGED <<backVars, summaryCalls, processingReport, spkVars, app,
                 stepVars, keyVars,
                 micVars, recVars,
                 transcriptSegments, analysisData, reviewVisible, nBoxes,
                 segChecked, summaryRequests, summaryData,
                 speakerAssignments, exportRequest>>

(***************************************************************************)
(* Speaker identification, step 5                                          *)
(* (server.js 469-516, 1485-1595, 1678-1728; renderer.js 449-516)          *)
(***************************************************************************)
\* what a name field can hold: nothing, a blank, a name
FieldValues == {"", " ", "Ann", "Bob"}

\* String.prototype.trim
trim(v) == IF v = " " THEN "" ELSE v

\* sampleEnd with the whole segment taken as the sample
sampleEnd_whole(segment) == segment.end

\* sampleEnd = Math.min(segment.start + sampleDuration, segment.end)
sampleEnd(segment) ==
  IF segment.start + 5 < segment.end THEN segment.start + 5 ELSE segment.end

RECURSIVE snippetsFrom(_, _, _, _)
\* the loop of /api/extract-speaker-snippets from segment i (1-based) on
snippetsFrom(segments, i, lastSampleTime, speakerSamplesSoFar) ==
  IF i > Len(segments) \/ Len(speakerSamplesSoFar) >= 8
  THEN speakerSamplesSoFar
  ELSE LET segment == segments[i]
       IN IF segment.start - lastSampleTime >= 15
          THEN snippetsFrom(segments, i + 1, segment.start,
                 Append(speakerSamplesSoFar,
                        [sampleIndex |-> Len(speakerSamplesSoFar),
                         segmentIndex |-> i - 1,
                         startTime |-> segment.start,
                         endTime |-> sampleEnd(segment)]))
          ELSE snippetsFrom(segments, i + 1, lastSampleTime,
                            speakerSamplesSoFar)

\* the speakerSamples /api/extract-speaker-snippets answers for segments
extractSpeakerSnippets(segments) == snippetsFrom(segments, 1, 0, <<>>)

\* speakerSamples.find(s => s.segmentIndex === segmentIndex): the position
\* of the first such sample, 0 when there is none
matchingSample(samples, segmentIndex) ==
  LET found == {k \in 1..Len(samples) : samples[k].segmentIndex = segmentIndex}
  IN IF found = {} THEN 0
     ELSE CHOOSE k \in found : \A m \in found : k <= m

\* the value of name field k after detectedSpeakers.forEach has pre-filled
\* the matching samples: the name of the last detection that matches it
prefilled(samples, detected, k) ==
  LET hits == {d \in 1..Len(detected) :
                 matchingSample(samples, detected[d].segmentIndex) = k}
  IN IF hits = {} THEN ""
     ELSE detected[CHOOSE d \in hits : \A e \in hits : e <= d].name

\* displaySpeakerIdentification after /api/extract-speaker-snippets
\* settles: one name field per sample, pre-filled where a detected speaker
\* matches; an error leaves the notice only
Web_snippetsResponse(success) ==
  /\ app = "web"
  /\ pend["snippets"] > 0
  /\ Recv("snippets")
  /\ success => Len(snippetRequest) # 0
  /\ IF success
     THEN LET samples == extractSpeakerSnippets(snippetRequest)
          IN /\ speakerSamples' = samples
             /\ speakerInputs' = [k \in 1..Len(samples) |->
                                    [seg |-> samples[k].segmentIndex,
                                     value |-> prefilled(samples,
                                                 detectedSpeakers, k)]]
     ELSE UNCHANGED <<speakerSamples, speakerInputs>>
  /\ snippetRequest' = <<>>
  /\ UNCHANGED <<backVars, capVars, app, stepVars, keyVars, micVars, recVars,
                 revVars, detectedSpeakers>>

\* the user edits name field k (no listener is attached to the fields)
TypeSpeakerName(k, v) ==
  /\ currentStep = 5
  /\ k \in 1..Len(speakerInputs)
  /\ speakerInputs[k].value # v
  /\ speakerInputs' = [speakerInputs EXCEPT ![k].value = v]
  /\ UNCHANGED <<backVars, capVars, app, stepVars, keyVars, micVars, pend, recVars,
                 revVars, speakerSamples, snippetRequest, detectedSpeakers>>

\* speakerSampleMap[sampleIdx].name: input.value.trim() || 'Unknown Speaker'
Web_sampleName(sampleIdx) ==
  IF trim(speakerInputs[sampleIdx + 1].value) = "" THEN "Unknown Speaker"
  ELSE trim(speakerInputs[sampleIdx + 1].value)

\* Math.abs(transcriptSegments[index].start - sample.startTime)
Web_timeDiff(index, sampleIdx) ==
  LET d == transcriptSegments[index + 1].start
             - speakerSamples[sampleIdx + 1].startTime
  IN IF d < 0 THEN 0 - d ELSE d

\* the samples the forEach of #apply-speakers considers for box index:
\* those with a name field, within 60 seconds of an existing segment
Web_candidates(index) ==
  {sampleIdx \in 0..(Len(speakerSamples) - 1) :
     /\ sampleIdx + 1 <= Len(speakerInputs)
     /\ index + 1 <= Len(transcriptSegments)
     /\ Web_timeDiff(index, sampleIdx) < 60}

\* assignedSpeaker of box index: the name of the closest sample, the first
\* one on a tie, 'Unknown Speaker' without a candidate
Web_assignedSpeaker(index) ==
  IF Web_candidates(index) = {} THEN "Unknown Speaker"
  ELSE Web_sampleName(
         CHOOSE c \in Web_candidates(index) :
           \A o \in Web_candidates(index) :
             \/ Web_timeDiff(index, c) < Web_timeDiff(index, o)
             \/ Web_timeDiff(index, c) = Web_timeDiff(index, o) /\ c <= o)

\* #apply-speakers click
Web_applySpeakers ==
  /\ app = "web"
  /\ currentStep = 5
  /\ speakerAssignments' = [i \in segChecked |-> Web_assignedSpeaker(i)]
  /\ showStep(6)
  /\ UNCHANGED <<backVars, capVars, spkVars, app, keyVars, micVars, pend, recVars,
                 transcriptSegments, analysisData, reviewVisible, nBoxes,
                 segChecked, summaryRequests, summaryData, exportRequest,
                 exportBtnDisabled>>

\* the fields of applySpeakers that name segment index (0-based) with a
\* non-empty trimmed value
Desk_namingInputs(index) ==
  {k \in 1..Len(speakerInputs) :
     speakerInputs[k].seg = index /\ trim(speakerInputs[k].value) # ""}

\* applySpeakers: a field with a name writes it to its segment, an empty
\* field writes nothing
Desk_applySpeakers ==
  /\ app = "desktop"
  /\ currentStep = 5
  /\ transcriptSegments' =
       [i \in 1..Len(transcriptSegments) |->
          IF Desk_namingInputs(i - 1) = {} THEN transcriptSegments[i]
          ELSE LET last == CHOOSE k \in Desk_namingInputs(i - 1) :
                             \A o \in Desk_namingInputs(i - 1) : o <= k
               IN [transcriptSegments[i] EXCEPT
                     !.speaker = trim(speakerInputs[last].value)]]
  /\ goToStep(6)
  /\ UNCHANGED <<backVars, capVars, spkVars, app, keyVars, micVars, pend, recVars,
                 analysisData, reviewVisible, nBoxes, segChecked,
                 summaryRequests, summaryData, speakerAssignments,
                 exportRequest, exportBtnDisabled>>

(***************************************************************************)
(* crypto-utils (src/unnamed/part_002)                                     *)
(*                                                                         *)
(* A string is a sequence of UTF-16 code units, a Buffer a sequence of     *)
(* bytes, a base64 string a sequence of sextet values with 64 for '='.     *)
(* Node's PBKDF2 and AES-256-GCM are library code: they are represented by *)
(* a key that is a function of machine key and salt, a key stream that is  *)
(* a function of key, IV and position, and a tag that is a function of     *)
(* key, IV and ciphertext which decipher.final() compares.                 *)
(***************************************************************************)
IV_LENGTH == 16
SALT_LENGTH == 64
TAG_LENGTH == 16
TAG_POSITION == SALT_LENGTH + IV_LENGTH
ENCRYPTED_POSITION == TAG_POSITION + TAG_LENGTH

\* null / undefined
Null == <<-1>>

\* a JavaScript value used as a condition
Truthy(x) == x # Null /\ x # <<>>

\* code units a plaintext is made of: one of each UTF-8 width (A, e-acute,
\* the euro sign) and the two halves of a surrogate pair
CodeUnits == {65, 233, 8364, 55357, 56832}

IsHighSurrogate(u) == u >= 55296 /\ u <= 56319

IsLowSurrogate(u) == u >= 56320 /\ u <= 57343

RECURSIVE SeqsUpTo(_, _)
SeqsUpTo(S, n) ==
  IF n = 0 THEN {<<>>}
  ELSE LET shorter == SeqsUpTo(S, n - 1)
       IN shorter \cup {Append(s, x) : s \in shorter, x \in S}

Plaintexts == SeqsUpTo(CodeUnits, MaxLen)

\* the UTF-8 bytes of one code point
Utf8Bytes(cp) ==
  IF cp < 128 THEN <<cp>>
  ELSE IF cp < 2048 THEN <<192 + (cp \div 64), 128 + (cp % 64)>>
  ELSE IF cp < 65536
       THEN <<224 + (cp \div 4096), 128 + ((cp \div 64) % 64),
              128 + (cp % 64)>>
  ELSE <<240 + (cp \div 262144), 128 + ((cp \div 4096) % 64),
         128 + ((cp \div 64) % 64), 128 + (cp % 64)>>

RECURSIVE utf8Write(_)
\* cipher.update(text, 'utf8'): a surrogate pair is one code point, an
\* unpaired surrogate is written as U+FFFD
utf8Write(s) ==
  IF s = <<>> THEN <<>>
  ELSE IF IsHighSurrogate(s[1]) /\ Len(s) >= 2 /\ IsLowSurrogate(s[2])
       THEN Utf8Bytes(65536 + (s[1] - 55296) * 1024 + (s[2] - 56320))
              \o utf8Write(SubSeq(s, 3, Len(s)))
  ELSE IF IsHighSurrogate(s[1]) \/ IsLowSurrogate(s[1])
       THEN Utf8Bytes(65533) \o utf8Write(Tail(s))
  ELSE Utf8Bytes(s[1]) \o utf8Write(Tail(s))

IsContinuation(b, i) == i <= Len(b) /\ b[i] >= 128 /\ b[i] < 192

\* a code point as UTF-16 code units
Utf16Units(cp) ==
  IF cp < 65536 THEN <<cp>>
  ELSE <<55296 + ((cp - 65536) \div 1024), 56320 + ((cp - 65536) % 1024)>>

RECURSIVE utf8Slice(_)
\* decrypted.toString('utf8'): a malformed byte reads as U+FFFD
utf8Slice(b) ==
  IF b = <<>> THEN <<>>
  ELSE IF b[1] < 128 THEN <<b[1]>> \o utf8Slice(Tail(b))
  ELSE IF b[1] >= 194 /\ b[1] < 224 /\ IsContinuation(b, 2)
       THEN <<(b[1] - 192) * 64 + (b[2] - 128)>>
              \o utf8Slice(SubSeq(b, 3, Len(b)))
  ELSE IF b[1] >= 224 /\ b[1] < 240 /\ IsContinuation(b, 2)
          /\ IsContinuation(b, 3)
          /\ LET cp == (b[1] - 224) * 4096 + (b[2] - 128) * 64 + (b[3] - 128)
             IN cp >= 2048 /\ ~(IsHighSurrogate(cp) \/ IsLowSurrogate(cp))
       THEN <<(b[1] - 224) * 4096 + (b[2] - 128) * 64 + (b[3] - 128)>>
              \o utf8Slice(SubSeq(b, 4, Len(b)))
  ELSE IF b[1] >= 240 /\ b[1] < 245 /\ IsContinuation(b, 2)
          /\ IsContinuation(b, 3) /\ IsContinuation(b, 4)
          /\ LET cp == (b[1] - 240) * 262144 + (b[2] - 128) * 4096
                         + (b[3] - 128) * 64 + (b[4] - 128)
             IN cp >= 65536 /\ cp < 1114112
       THEN Utf16Units((b[1] - 240) * 262144 + (b[2] - 128) * 4096
                         + (b[3] - 128) * 64 + (b[4] - 128))
              \o utf8Slice(SubSeq(b, 5, Len(b)))
  ELSE <<65533>> \o utf8Slice(Tail(b))

\* result.toString('base64'): every three bytes give four sextets, a
\* short last group is padded
base64Write(b) ==
  LET n == Len(b)
      byte(x) == IF x <= n THEN b[x] ELSE 0
  IN [i \in 1..(4 * ((n + 2) \div 3)) |->
        LET k == 3 * ((i - 1) \div 4)
            j == (i - 1) % 4
        IN CASE j = 0 -> byte(k + 1) \div 4
             [] j = 1 -> (byte(k + 1) % 4) * 16 + (byte(k + 2) \div 16)
             [] j = 2 -> IF k + 2 > n THEN 64
                         ELSE (byte(k + 2) % 16) * 4 + (byte(k + 3) \div 64)
             [] OTHER -> IF k + 3 > n THEN 64 ELSE byte(k + 3) % 64]

\* Buffer.from(encryptedData, 'base64'): decoding ends at the padding
base64Read(s) ==
  LET pads == {i \in 1..Len(s) : s[i] = 64}
      m == IF pads = {} THEN Len(s)
           ELSE (CHOOSE i \in pads : \A j \in pads : i <= j) - 1
  IN [i \in 1..((m * 3) \div 4) |->
        LET k == 4 * ((i - 1) \div 3)
            r == (i - 1) % 3
        IN CASE r = 0 -> s[k + 1] * 4 + (s[k + 2] \div 16)
             [] r = 1 -> (s[k + 2] % 16) * 16 + (s[k + 3] \div 4)
             [] OTHER -> (s[k + 3] % 4) * 64 + s[k + 4]]

\* crypto.randomBytes(n): the n bytes drawn when the generator is in state
\* seed
randomBytes(n, seed) == [i \in 1..n |-> (seed * 37 + i * 11) % 256]

\* the generator's states; one call of encrypt draws its salt in a state
\* and its IV in the next
RandomSeeds == 1..NumSeeds

SaltOf(seed) == randomBytes(SALT_LENGTH, seed)

IvOf(seed) == randomBytes(IV_LENGTH, seed + 1)

\* getMachineKey: the digest of hostname, platform and architecture
getMachineKey == 101

\* pbkdf2Sync(getMachineKey(), salt, ...): one byte stands for the 32
pbkdf2Sync(machineKey, salt) ==
  (machineKey + salt[1] * 7 + salt[SALT_LENGTH] * 3) % 256

\* the key stream byte of AES-GCM at position i
KeyStream(key, iv, i) == (key + iv[1] * 5 + iv[IV_LENGTH] + i * 13) % 256

\* cipher.update + cipher.final
cipherUpdate(key, iv, plain) ==
  [i \in 1..Len(plain) |-> (plain[i] + KeyStream(key, iv, i)) % 256]

\* decipher.update
decipherUpdate(key, iv, encrypted) ==
  [i \in 1..Len(encrypted) |-> (encrypted[i] - KeyStream(key, iv, i)) % 256]

RECURSIVE SumBytes(_)
SumBytes(b) == IF b = <<>> THEN 0 ELSE b[1] + SumBytes(Tail(b))

\* cipher.getAuthTag: TAG_LENGTH bytes from key, IV and ciphertext
getAuthTag(key, iv, encrypted) ==
  LET sum == SumBytes(encrypted)
  IN [i \in 1..TAG_LENGTH |->
        (key + iv[i] + sum * i + Len(encrypted)) % 256]

\* encrypt(text); salt and iv are what randomBytes returned to this call
encrypt(txt, salt, iv) ==
  IF ~Truthy(txt) THEN Null
  ELSE LET key == pbkdf2Sync(getMachineKey, salt)
           encrypted == cipherUpdate(key, iv, utf8Write(txt))
           tag == getAuthTag(key, iv, encrypted)
           result == salt \o iv \o tag \o encrypted
       IN base64Write(result)

\* the buffer split with the ciphertext taken from the tag's offset
decryptParts_tagOffset(encryptedData) ==
  LET buffer == base64Read(encryptedData)
  IN [salt |-> SubSeq(buffer, 1, SALT_LENGTH),
      iv |-> SubSeq(buffer, SALT_LENGTH + 1, TAG_POSITION),
      tag |-> SubSeq(buffer, TAG_POSITION + 1, ENCRYPTED_POSITION),
      encrypted |-> SubSeq(buffer, TAG_POSITION + 1, Len(buffer))]

\* the buffer decrypt reads, split at the offsets of lines 66-69
decryptParts(encryptedData) ==
  LET buffer == base64Read(encryptedData)
  IN [salt |-> SubSeq(buffer, 1, SALT_LENGTH),
      iv |-> SubSeq(buffer, SALT_LENGTH + 1, TAG_POSITION),
      tag |-> SubSeq(buffer, TAG_POSITION + 1, ENCRYPTED_POSITION),
      encrypted |-> SubSeq(buffer, ENCRYPTED_POSITION + 1, Len(buffer))]

\* decrypt(encryptedData): null for an empty argument and for whatever the
\* library rejects (short salt or IV, tag mismatch)
decrypt(encryptedData) ==
  IF ~Truthy(encryptedData) THEN Null
  ELSE LET p == decryptParts(encryptedData)
       IN IF Len(p.salt) < SALT_LENGTH \/ Len(p.iv) < IV_LENGTH
             \/ Len(p.tag) < TAG_LENGTH
          THEN Null
          ELSE LET key == pbkdf2Sync(getMachineKey, p.salt)
               IN IF p.tag # getAuthTag(key, p.iv, p.encrypted)
                  THEN Null
                  ELSE utf8Slice(decipherUpdate(key, p.iv, p.encrypted))

\* a caller encrypts its text
Crypto_encrypt(seed) ==
  /\ cryptoPc = "start"
  /\ storedData' = encrypt(plainText, SaltOf(seed), IvOf(seed))
  /\ usedSalt' = SaltOf(seed)
  /\ usedIv' = IvOf(seed)
  /\ cryptoPc' = "encrypted"
  /\ UNCHANGED <<plainText, decryptedText, wizVars, srvVars>>

\* and later decrypts what encrypt returned
Crypto_decrypt ==
  /\ cryptoPc = "encrypted"
  /\ decryptedText' = decrypt(storedData)
  /\ cryptoPc' = "decrypted"
  /\ UNCHANGED <<plainText, storedData, usedSalt, usedIv, wizVars, srvVars>>

(***************************************************************************)
(* The Express backend (server.js 56-840)                                  *)
(*                                                                         *)
(* A request is answered in one step. What the outside world contributes   *)
(* (the request body, whether a database call, OpenAI, ffmpeg or the       *)
(* document packer fails) is a parameter of the action.  res is the        *)
(* response last sent; its did lists the kinds of side effect the handler  *)
(* performed for that request:                                             *)
(*   "upload"   multer stored the uploaded file in temp-uploads            *)
(*   "openai"   a call to the OpenAI API was made                          *)
(*   "file"     a local file was written, converted or deleted             *)
(*   "storage"  an object was written to Firebase Storage                  *)
(*   "db"       a Firestore document was written                           *)
(* and its docs counts the documents the handler stored.                   *)
(***************************************************************************)
SessionIds == {"s1", "s2"}

Users == {"u1", "u2"}

NoUser == "none"

\* the users collection as it is when the server starts; there is no route
\* that creates a user
EmailOf == [u \in Users |-> IF u = "u1" THEN "a@x" ELSE "b@x"]

PasswordOf == [u \in Users |-> IF u = "u1" THEN "p1" ELSE "p2"]

\* the API keys a client may send: "sk1" and "sk2"
ApiKeys == {<<115, 107, 49>>, <<115, 107, 50>>}

\* encrypt on the keys a client may send, by the generator state of the
\* call (encrypt is a function of its text and its two draws)
EncryptedKeys ==
  [k \in ApiKeys |->
     [seed \in RandomSeeds |-> encrypt(k, SaltOf(seed), IvOf(seed))]]

StoredCiphertexts == {EncryptedKeys[k][seed] : k \in ApiKeys, seed \in RandomSeeds}

\* decrypt on those ciphertexts
DecryptedKeys == [e \in StoredCiphertexts |-> decrypt(e)]

\* decrypt(user.encryptedApiKey)
decryptApiKey(encryptedApiKey) ==
  IF encryptedApiKey \in StoredCiphertexts THEN DecryptedKeys[encryptedApiKey]
  ELSE decrypt(encryptedApiKey)

\* the key itself handed to updateUserApiKey
encryptedKey_plain(apiKey, seed) == apiKey

\* encryptedKey = encrypt(apiKey), which updateUserApiKey is given
encryptedKey(apiKey, seed) == EncryptedKeys[apiKey][seed]

\* bcrypt.hash(password, SALT_ROUNDS)
bcryptHash(password) == <<"$2b$12$", password>>

\* bcrypt.compare that accepts every password
bcryptCompare_any(password, passwordHash) == TRUE

\* bcrypt.compare(password, passwordHash)
bcryptCompare(password, passwordHash) == passwordHash = bcryptHash(password)

NoSession == [userId |-> NoUser, userEmail |-> ""]

NoResponse == [route |-> "", status |-> 0, error |-> "", did |-> {}, docs |-> 0]

ProtectedRoutes ==
  {"/api/check-config", "/api/init-openai", "/api/transcribe",
   "/api/analyze-transcript", "/api/extract-speaker-snippets",
   "/api/get-speaker-audio", "/api/generate-summary",
   "/api/generate-documents"}

\* requireAuth that lets every request through
requireAuth_open(s) == TRUE

\* requireAuth: req.session && req.session.userId
requireAuth(s) == sessions[s].userId # NoUser

\* findUserByEmail after a successful query: the matching users
findUserByEmail(email) == {u \in Users : users[u].email = email}

\* res.status(status).json(...)
Respond(route, status, error, did, docs) ==
  res' = [route |-> route, status |-> status, error |-> error, did |-> did,
          docs |-> docs]

\* the 401 of requireAuth; next() is not called
Unauthorized(route) ==
  /\ Respond(route, 401, "Authentication required", {}, 0)
  /\ UNCHANGED <<sessions, users, openaiClient>>

\* res.json(body) of a route whose body a client reads fields of
RespondBody(route, body) ==
  res' = [route |-> route, status |-> 200, error |-> "", did |-> {},
          docs |-> 0, body |-> body]

\* GET /api/auth/status
Api_authStatus(s) ==
  /\ RespondBody("/api/auth/status",
                 [authenticated |-> sessions[s].userId # NoUser,
                  email |-> sessions[s].userEmail])
  /\ UNCHANGED <<sessions, users, openaiClient, db, storage, wizVars, cryVars>>

\* POST /api/auth/login; outcome: "ok", or the Firestore call that fails
\* ("query" of findUserByEmail, "write" of updateLastLogin).  lastLogin is
\* a timestamp nothing reads: its update is the "db" of did.
Api_login(s, email, password, outcome) ==
  /\ LET route == "/api/auth/login"
         found == findUserByEmail(email)
     IN IF email = "" \/ password = ""
        THEN /\ Respond(route, 400, "Email and password are required", {}, 0)
             /\ UNCHANGED <<sessions, users, openaiClient>>
        ELSE IF ~db \/ outcome = "query"
        THEN /\ Respond(route, 500, "error.message", {}, 0)
             /\ UNCHANGED <<sessions, users, openaiClient>>
        ELSE IF found = {}
        THEN /\ Respond(route, 401, "Invalid email or password", {}, 0)
             /\ UNCHANGED <<sessions, users, openaiClient>>
        ELSE LET user == CHOOSE u \in found : TRUE
                 apiKey == decryptApiKey(users[user].encryptedApiKey)
             IN IF ~bcryptCompare(password, users[user].passwordHash)
                THEN /\ Respond(route, 401, "Invalid email or password", {}, 0)
                     /\ UNCHANGED <<sessions, users, openaiClient>>
                ELSE IF outcome = "write"
                THEN /\ Respond(route, 500, "error.message", {}, 0)
                     /\ UNCHANGED <<sessions, users, openaiClient>>
                ELSE /\ UNCHANGED users
                     /\ sessions' = [sessions EXCEPT ![s] =
                                       [userId |-> user,
                                        userEmail |-> users[user].email]]
                     /\ openaiClient' =
                          IF Truthy(users[user].encryptedApiKey)
                             /\ Truthy(apiKey)
                          THEN apiKey ELSE openaiClient
                     /\ Respond(route, 200, "", {"db"}, 0)
  /\ UNCHANGED <<db, storage, wizVars, cryVars>>

\* a destroy that leaves the session in the store
destroySession_keep(s) == sessions

\* req.session.destroy: the session's data is gone
destroySession(s) == [sessions EXCEPT ![s] = NoSession]

\* POST /api/auth/logout; destroyed: session.destroy reports no error
Api_logout(s, destroyed) ==
  /\ IF ~destroyed
     THEN /\ Respond("/api/auth/logout", 500, "Logout failed", {}, 0)
          /\ UNCHANGED <<sessions, openaiClient>>
     ELSE /\ sessions' = destroySession(s)
          /\ openaiClient' = Null
          /\ Respond("/api/auth/logout", 200, "", {}, 0)
  /\ UNCHANGED <<users, db, storage, wizVars, cryVars>>

\* GET /api/check-config; queryOk: the read of the user's document
\* succeeds (without a user id in the session it throws)
Api_checkConfig(s, queryOk) ==
  /\ LET route == "/api/check-config"
     IN IF ~requireAuth(s) THEN Unauthorized(route)
        ELSE /\ IF queryOk /\ sessions[s].userId \in Users
                THEN RespondBody(route,
                       [hasApiKey |->
                          Truthy(users[sessions[s].userId].encryptedApiKey),
                        isInitialized |-> Truthy(openaiClient)])
                ELSE Respond(route, 500, "error.message", {}, 0)
             /\ UNCHANGED <<sessions, users, openaiClient>>
  /\ UNCHANGED <<db, storage, wizVars, cryVars>>

\* POST /api/init-openai; outcome: "ok", "invalid" (models.list() fails)
\* or "write" (the update of the user's document fails)
Api_initOpenai(s, apiKey, saveKey, outcome) ==
  /\ LET route == "/api/init-openai"
     IN IF ~requireAuth(s) THEN Unauthorized(route)
        ELSE IF ~Truthy(apiKey)
        THEN /\ Respond(route, 400, "API key is required", {}, 0)
             /\ UNCHANGED <<sessions, users, openaiClient>>
        ELSE /\ openaiClient' = apiKey
             /\ UNCHANGED sessions
             /\ IF outcome = "invalid"
                THEN /\ Respond(route, 400, "error.message", {"openai"}, 0)
                     /\ UNCHANGED users
                ELSE IF ~saveKey
                THEN /\ Respond(route, 200, "", {"openai"}, 0)
                     /\ UNCHANGED users
                ELSE IF ~db \/ outcome = "write"
                THEN /\ Respond(route, 400, "error.message", {"openai"}, 0)
                     /\ UNCHANGED users
                ELSE /\ \E seed \in RandomSeeds :
                          users' = [users EXCEPT
                                      ![sessions[s].userId].encryptedApiKey =
                                         encryptedKey(apiKey, seed)]
                     /\ Respond(route, 200, "", {"openai", "db"}, 0)
  /\ UNCHANGED <<db, storage, wizVars, cryVars>>

\* POST /api/transcribe; hasFile: the request carries the audio part,
\* outcome: "ok" or the step that fails
Api_transcribe(s, hasFile, outcome) ==
  /\ LET route == "/api/transcribe"
         upload == IF hasFile THEN {"upload"} ELSE {}
     IN IF ~requireAuth(s) THEN Unauthorized(route)
        ELSE /\ UNCHANGED <<sessions, users, openaiClient>>
             /\ IF ~Truthy(openaiClient)
                THEN Respond(route, 400, "OpenAI not initialized", upload, 0)
                ELSE IF ~hasFile
                THEN Respond(route, 400, "No audio file uploaded", {}, 0)
                ELSE IF outcome = "ffmpeg"
                THEN Respond(route, 500, "error.message",
                             {"upload", "file"}, 0)
                ELSE IF outcome = "whisper"
                THEN Respond(route, 500, "error.message",
                             {"upload", "file", "openai"}, 0)
                ELSE IF storage /\ outcome = "storage"
                THEN Respond(route, 500, "error.message",
                             {"upload", "file", "openai"}, 0)
                ELSE Respond(route, 200, "",
                             {"upload", "file", "openai"}
                               \cup (IF storage THEN {"storage"} ELSE {}), 0)
  /\ UNCHANGED <<db, storage, wizVars, cryVars>>

\* the handlers that make one chat completion: not initialized, the call
\* or the parse of its answer fails, or the answer is sent
ChatCompletion(route, s, ok) ==
  /\ IF ~requireAuth(s) THEN Unauthorized(route)
     ELSE /\ UNCHANGED <<sessions, users, openaiClient>>
          /\ IF ~Truthy(openaiClient)
             THEN Respond(route, 400, "OpenAI not initialized", {}, 0)
             ELSE IF ~ok
             THEN Respond(route, 500, "error.message", {"openai"}, 0)
             ELSE Respond(route, 200, "", {"openai"}, 0)
  /\ UNCHANGED <<db, storage, wizVars, cryVars>>

\* POST /api/analyze-transcript
Api_analyzeTranscript(s, ok) == ChatCompletion("/api/analyze-transcript", s, ok)

\* POST /api/generate-summary
Api_generateSummary(s, ok) == ChatCompletion("/api/generate-summary", s, ok)

\* POST /api/extract-speaker-snippets; hasBody: audioPath and a non-empty
\* segments array are given
Api_extractSpeakerSnippets(s, hasBody) ==
  /\ LET route == "/api/extract-speaker-snippets"
     IN IF ~requireAuth(s) THEN Unauthorized(route)
        ELSE /\ UNCHANGED <<sessions, users, openaiClient>>
             /\ IF ~hasBody
                THEN Respond(route, 400, "Audio path and segments required",
                             {}, 0)
                ELSE Respond(route, 200, "", {}, 0)
  /\ UNCHANGED <<db, storage, wizVars, cryVars>>

\* POST /api/get-speaker-audio; hasBody: audioFile and both times are
\* given, ok: ffmpeg and the file reads succeed
Api_getSpeakerAudio(s, hasBody, ok) ==
  /\ LET route == "/api/get-speaker-audio"
     IN IF ~requireAuth(s) THEN Unauthorized(route)
        ELSE /\ UNCHANGED <<sessions, users, openaiClient>>
             /\ IF ~hasBody
                THEN Respond(route, 400, "Audio file and timestamps required",
                             {}, 0)
                ELSE IF ~ok
                THEN Respond(route, 500, "error.message", {"file"}, 0)
                ELSE Respond(route, 200, "", {"file"}, 0)
  /\ UNCHANGED <<db, storage, wizVars, cryVars>>

\* a handler that leaves out the upload of the transcript
uploadsBefore_summaryOnly(outcome) ==
  CASE outcome = "summary" -> 0
    [] OTHER -> 1

\* generate-documents: the documents stored when the handler stops at
\* outcome; the summary is stored first, then the transcript
uploadsBefore(outcome) ==
  CASE outcome = "summary" -> 0
    [] outcome = "transcript" -> 1
    [] OTHER -> 2

\* POST /api/generate-documents; outcome: "ok" or the step that fails
\* ("packer", "summary", "transcript", "url", "meeting")
Api_generateDocuments(s, outcome) ==
  /\ LET route == "/api/generate-documents"
         docs == uploadsBefore(outcome)
     IN IF ~requireAuth(s) THEN Unauthorized(route)
        ELSE /\ UNCHANGED <<sessions, users, openaiClient>>
             /\ IF outcome = "packer"
                THEN Respond(route, 500, "error.message", {}, 0)
                ELSE IF storage
                THEN CASE outcome = "summary" ->
                            Respond(route, 500, "error.message", {}, docs)
                       [] outcome = "transcript" ->
                            Respond(route, 500, "error.message",
                                    {"storage"}, docs)
                       [] outcome = "url" ->
                            Respond(route, 500, "error.message",
                                    {"storage"}, docs)
                       [] outcome = "meeting" /\ db ->
                            Respond(route, 500, "error.message",
                                    {"storage"}, docs)
                       [] OTHER ->
                            Respond(route, 200, "",
                                    {"storage"}
                                      \cup (IF db THEN {"db"} ELSE {}), docs)
                ELSE CASE outcome = "summary" ->
                            Respond(route, 500, "error.message", {}, docs)
                       [] outcome = "transcript" ->
                            Respond(route, 500, "error.message", {"file"},
                                    docs)
                       [] OTHER ->
                            Respond(route, 200, "", {"file"}, docs)
  /\ UNCHANGED <<db, storage, wizVars, cryVars>>

\* GET /api/download/:type/:filename: the file is sent and then deleted
Api_download(s) ==
  /\ Respond("/api/download", 200, "", {"file"}, 0)
  /\ UNCHANGED <<sessions, users, openaiClient, db, storage, wizVars, cryVars>>

(***************************************************************************)
(* The wizard as state machines                                            *)
(*                                                                         *)
(* The wizard is explored in parts, each from a state the program          *)
(* reaches: Spec from page load with the handlers of steps 0-2 and the     *)
(* navigation, SpecRec at the recording step with every selection the      *)
(* microphone step can leave behind, SpecReview from the Stop click that   *)
(* ends a first recording with the handlers of steps 4-6 and navigation,   *)
(* SpecSpeakers from the arrival of the first summary with the name fields *)
(* of step 5, the export and navigation, SpecProcess at the recording step *)
(* with the recordings and the processing of each, SpecSamples from the    *)
(* request for the speaker samples of a longer meeting.                    *)
(***************************************************************************)
vars == <<wizVars, srvVars, cryVars>>

\* the users collection when the server starts
InitUsers ==
  [u \in Users |-> [email |-> EmailOf[u],
                   passwordHash |-> bcryptHash(PasswordOf[u]),
                   encryptedApiKey |-> Null]]

\* the server after initializeApp (server.js 56-71, 108-130): Firebase is
\* configured or not, and a key of config.json may have set the client
InitServer ==
  /\ db \in BOOLEAN
  /\ storage \in {b \in BOOLEAN : b => db}
  /\ sessions = [s \in SessionIds |-> NoSession]
  /\ users = InitUsers
  /\ openaiClient \in {Null} \cup ApiKeys
  /\ res = NoResponse

\* a server nobody calls
IdleServer ==
  /\ db = FALSE
  /\ storage = FALSE
  /\ sessions = [s \in SessionIds |-> NoSession]
  /\ users = InitUsers
  /\ openaiClient = Null
  /\ res = NoResponse

\* a caller about to encrypt some text
InitCrypto ==
  /\ plainText \in Plaintexts
  /\ usedSalt = <<>>
  /\ usedIv = <<>>
  /\ storedData = Null
  /\ decryptedText = Null
  /\ cryptoPc = "start"

\* no caller
IdleCrypto ==
  /\ plainText = <<>>
  /\ usedSalt = <<>>
  /\ usedIv = <<>>
  /\ storedData = Null
  /\ decryptedText = Null
  /\ cryptoPc = "idle"

InitRecVars ==
  /\ starts = 0
  /\ tasks = {}
  /\ streams = <<>>
  /\ audioStreams = <<>>
  /\ audioContext = 0
  /\ ctxOpen = {}
  /\ recorders = [s \in Sessions |-> NoRecorder]
  /\ mediaRecorder = 0
  /\ timers = {}
  /\ recordingTimer = 0
  /\ vizLoops = {}
  /\ visualizerAnimation = 0
  /\ startDisabled = FALSE
  /\ stopDisabled = TRUE

InitRevVars ==
  /\ transcriptSegments = <<>>
  /\ analysisData = <<>>
  /\ reviewVisible = FALSE
  /\ nBoxes = 0
  /\ segChecked = {}
  /\ summaryRequests = <<>>
  /\ summaryData = NoSummary
  /\ speakerAssignments = <<>>
  /\ exportRequest = NoExport
  /\ exportBtnDisabled = FALSE
  /\ speakerSamples = <<>>
  /\ detectedSpeakers = <<>>
  /\ speakerInputs = <<>>
  /\ snippetRequest = <<>>
  /\ summaryCalls = 0
  /\ exportResult = NoResult
  /\ processingReport = ""

\* the page after DOMContentLoaded (server.js 1911-1915, renderer.js 18-21)
InitWizard ==
  /\ app \in {"web", "desktop"}
  /\ currentStep = IF app = "web" THEN 0 ELSE 1
  /\ isAuthenticated = FALSE
  /\ apiKeyConfigured = FALSE
  /\ keyValidated = FALSE
  /\ prevDisabled = (currentStep = 1)
  /\ nextDisabled = FALSE
  /\ continueShown = FALSE
  /\ saveBtnDisabled = FALSE
  /\ micListed = FALSE
  /\ micChecked = {}
  /\ selectedMicrophones = <<>>
  /\ pend = [NoPending EXCEPT ![IF app = "web" THEN "authStatus"
                                ELSE "detectMics"] = 1]
  /\ InitRecVars
  /\ InitRevVars

InitNav ==
  /\ InitWizard
  /\ IdleServer
  /\ IdleCrypto

NextNav ==
  \/ \E a \in BOOLEAN : Web_checkAuthStatus(a)
  \/ Web_handleLogin
  \/ \E ok \in BOOLEAN, k \in BOOLEAN : Web_loginResponse(ok, k)
  \/ \E o \in {"saved", "nokey", "error"} : Web_checkApiKeyStatus(o)
  \/ Web_saveApiKey
  \/ \E ok \in BOOLEAN : Web_initOpenaiResponse(ok)
  \/ Web_changeApiKey
  \/ Web_continueWithApi
  \/ \E g \in BOOLEAN : Web_loadMicrophones(g)
  \/ \E d \in Devices : Web_micChange(d)
  \/ Web_nextToRecording
  \/ Web_prevStep
  \/ Web_nextStep
  \/ \E ok \in BOOLEAN : Desk_detectMicrophones(ok)
  \/ \E d \in Devices : Desk_micToggle(d)
  \/ Desk_saveApiKey
  \/ \E ok \in BOOLEAN : Desk_saveApiKeyResult(ok)
  \/ Desk_nextToRecording
  \/ Desk_prevStep
  \/ Desk_nextStep
  \/ \E st \in 1..6 : Desk_stepDot(st)

Next == NextNav

Spec == InitNav /\ [][Next]_vars

\* the selections the microphone step can leave: the web list keeps click
\* order, the desktop list is read off the boxes; both can be empty when
\* step 3 is entered with #next-step
InitRec ==
  /\ app \in {"web", "desktop"}
  /\ currentStep = 3
  /\ isAuthenticated = (app = "web")
  /\ apiKeyConfigured = (app = "desktop")
  /\ keyValidated = TRUE
  /\ prevDisabled = FALSE
  /\ nextDisabled = FALSE
  /\ continueShown = FALSE
  /\ saveBtnDisabled = FALSE
  /\ micListed = TRUE
  /\ micChecked \in SUBSET Devices
  /\ selectedMicrophones \in
       IF app = "desktop" THEN {SetToSeq(micChecked)}
       ELSE {q \in UNION {[1..n -> Devices] : n \in 0..NumDevices} :
               /\ Range(q) = micChecked
               /\ Len(q) = Cardinality(micChecked)}
  /\ pend = NoPending
  /\ InitRecVars
  /\ InitRevVars
  /\ IdleServer
  /\ IdleCrypto

NextRec ==
  \/ Web_startRecording
  \/ \E t \in tasks : Web_getUserMediaResolved(t)
  \/ \E t \in tasks : Web_getUserMediaRejected(t)
  \/ \E k \in Sessions : Web_draw(k)
  \/ Web_stopRecording
  \/ Desk_startRecording
  \/ \E t \in tasks : Desk_getUserMediaResolved(t)
  \/ \E t \in tasks : Desk_getUserMediaRejected(t)
  \/ Desk_stopRecording

SpecRec == InitRec /\ [][NextRec]_vars

\* recording and processing together: from the recording step, with every
\* recording the page load allows, the processing each Stop starts and the
\* navigation buttons
NextProcess ==
  \/ Web_startRecording
  \/ \E t \in tasks : Web_getUserMediaResolved(t)
  \/ \E t \in tasks : Web_getUserMediaRejected(t)
  \/ \E k \in Sessions : Web_draw(k)
  \/ Web_stopRecording
  \/ Desk_startRecording
  \/ \E t \in tasks : Desk_getUserMediaResolved(t)
  \/ \E t \in tasks : Desk_getUserMediaRejected(t)
  \/ Desk_stopRecording
  \/ Web_handleRecordingComplete
  \/ \E ok \in BOOLEAN, tr \in Transcripts : Web_transcribeResponse(ok, tr)
  \/ \E ok \in BOOLEAN, an \in Analyses ,
          ds \in DetectedSpeakerLists : Web_analyzeResponse(ok, an, ds)
  \/ Web_displayTranscriptReview
  \/ Desk_saveRecording
  \/ \E ok \in BOOLEAN : Desk_saveAudioResult(ok)
  \/ \E ok \in BOOLEAN, tr \in Transcripts : Desk_transcribeResult(ok, tr)
  \/ \E ok \in BOOLEAN, an \in Analyses : Desk_analyzeResult(ok, an)
  \/ Desk_displayTranscriptSegments
  \/ Web_prevStep
  \/ Web_nextStep
  \/ Desk_prevStep
  \/ Desk_nextStep

SpecProcess == InitRec /\ [][NextProcess]_vars

\* the state right after the Stop click that ends a first recording from
\* microphone 1: the recorder's stop event is queued
InitReview ==
  /\ app \in {"web", "desktop"}
  /\ currentStep = 3
  /\ isAuthenticated = (app = "web")
  /\ apiKeyConfigured = (app = "desktop")
  /\ keyValidated = TRUE
  /\ prevDisabled = FALSE
  /\ nextDisabled = FALSE
  /\ continueShown = FALSE
  /\ saveBtnDisabled = FALSE
  /\ micListed = TRUE
  /\ micChecked = {1}
  /\ selectedMicrophones = <<1>>
  /\ pend = [NoPending EXCEPT !["onstop"] = 1]
  /\ starts = 1
  /\ tasks = {}
  /\ streams = <<[dev |-> 1, live |-> FALSE, by |-> 1]>>
  /\ audioStreams = IF app = "web" THEN <<1>> ELSE <<>>
  /\ audioContext = IF app = "web" THEN 1 ELSE 0
  /\ ctxOpen = IF app = "web" THEN {} ELSE {1}
  /\ recorders = [s \in Sessions |->
                    IF s = 1 THEN [state |-> "inactive", src |-> {1},
                                   sel |-> <<1>>]
                    ELSE NoRecorder]
  /\ mediaRecorder = 1
  /\ timers = {}
  /\ recordingTimer = 1
  /\ vizLoops = IF app = "web" THEN {} ELSE {1}
  /\ visualizerAnimation = IF app = "web" THEN 1 ELSE 0
  /\ startDisabled = FALSE
  /\ stopDisabled = TRUE
  /\ InitRevVars
  /\ IdleServer
  /\ IdleCrypto

NextReview ==
  \/ Web_handleRecordingComplete
  \/ \E ok \in BOOLEAN, tr \in Transcripts : Web_transcribeResponse(ok, tr)
  \/ \E ok \in BOOLEAN, an \in Analyses ,
          ds \in DetectedSpeakerLists : Web_analyzeResponse(ok, an, ds)
  \/ Web_displayTranscriptReview
  \/ \E i \in 0..(MaxSegs - 1) : Web_segmentCheckbox(i)
  \/ Web_includeAll
  \/ Web_excludeAll
  \/ Web_startProcessing
  \/ \E k \in 1..MaxPending, ok \in BOOLEAN : Web_summaryResponse(k, ok)
  \/ \E ok \in BOOLEAN : Web_snippetsResponse(ok)
  \/ Web_skipSpeakers
  \/ Web_exportDocument
  \/ Web_exportResponse
  \/ Desk_saveRecording
  \/ \E ok \in BOOLEAN : Desk_saveAudioResult(ok)
  \/ \E ok \in BOOLEAN, tr \in Transcripts : Desk_transcribeResult(ok, tr)
  \/ \E ok \in BOOLEAN, an \in Analyses : Desk_analyzeResult(ok, an)
  \/ Desk_displayTranscriptSegments
  \/ \E i \in 0..(MaxSegs - 1) : Desk_toggleSegment(i)
  \/ Desk_includeAllSegments
  \/ Desk_excludeAllSegments
  \/ Desk_generateSummary
  \/ \E k \in 1..MaxPending, ok \in BOOLEAN : Desk_summaryResult(k, ok)
  \/ Desk_speakerTimer
  \/ Desk_skipSpeakers
  \/ \E w \in BOOLEAN, p \in BOOLEAN : Desk_exportDocument(w, p)
  \/ \E o \in SaveOutcomes : Desk_exportResult(o)
  \/ Web_prevStep
  \/ Web_nextStep
  \/ Desk_prevStep
  \/ Desk_nextStep
  \/ \E st \in 1..6 : Desk_stepDot(st)

SpecReview == InitReview /\ [][NextReview]_vars

\* transcripts whose segments start close together or a minute apart
SpeakerSegment(i, first, gap) ==
  [start |-> first + gap * (i - 1), end |-> first + gap * (i - 1) + 10,
   text |-> i, speaker |-> ""]

SpeakerTranscripts ==
  {[i \in 1..n |-> SpeakerSegment(i, first, gap)] :
     n \in 1..MaxSegs, first \in {0, 20}, gap \in {20, 70}}

\* what holds right after a first summary arrived for the checked segments:
\* the web app has asked for the speaker samples, the desktop app has set
\* the timer that renders the name fields
AtSpeakersStep ==
  /\ currentStep = 5
  /\ isAuthenticated = (app = "web")
  /\ apiKeyConfigured = (app = "desktop")
  /\ keyValidated = TRUE
  /\ prevDisabled = FALSE
  /\ nextDisabled = FALSE
  /\ continueShown = FALSE
  /\ saveBtnDisabled = FALSE
  /\ micListed = TRUE
  /\ micChecked = {1}
  /\ selectedMicrophones = <<1>>
  /\ pend = [NoPending EXCEPT ![IF app = "web" THEN "snippets"
                                ELSE "speakerTimer"] = 1]
  /\ starts = 1
  /\ tasks = {}
  /\ streams = <<[dev |-> 1, live |-> FALSE, by |-> 1]>>
  /\ audioStreams = IF app = "web" THEN <<1>> ELSE <<>>
  /\ audioContext = IF app = "web" THEN 1 ELSE 0
  /\ ctxOpen = IF app = "web" THEN {} ELSE {1}
  /\ recorders = [s \in Sessions |->
                    IF s = 1 THEN [state |-> "inactive", src |-> {1},
                                   sel |-> <<1>>]
                    ELSE NoRecorder]
  /\ mediaRecorder = 1
  /\ timers = {}
  /\ recordingTimer = 1
  /\ vizLoops = IF app = "web" THEN {} ELSE {1}
  /\ visualizerAnimation = IF app = "web" THEN 1 ELSE 0
  /\ startDisabled = FALSE
  /\ stopDisabled = TRUE
  /\ analysisData = <<>>
  /\ reviewVisible = TRUE
  /\ summaryRequests = <<>>
  /\ summaryData = [set |-> TRUE, of |-> TextsOf(Web_selected)]
  /\ speakerAssignments = <<>>
  /\ exportRequest = NoExport
  /\ exportBtnDisabled = FALSE
  /\ speakerSamples = <<>>
  /\ speakerInputs = <<>>
  /\ snippetRequest = IF app = "web"
                      THEN [k \in 1..Len(Web_selected) |->
                              transcriptSegments[Web_selected[k] + 1]]
                      ELSE <<>>
  /\ summaryCalls = 1
  /\ exportResult = NoResult
  /\ processingReport = "complete"
  /\ IdleServer
  /\ IdleCrypto

\* the state right after a first summary arrived for the checked segments
InitSpeakers ==
  /\ app \in {"web", "desktop"}
  /\ transcriptSegments \in SpeakerTranscripts
  /\ nBoxes = Len(transcriptSegments)
  /\ segChecked \in (SUBSET (0..(nBoxes - 1))) \ {{}}
  /\ detectedSpeakers \in IF app = "web" THEN DetectedSpeakerLists ELSE {<<>>}
  /\ AtSpeakersStep

NextSpeakers ==
  \/ \E ok \in BOOLEAN : Web_snippetsResponse(ok)
  \/ \E k \in 1..MaxSegs, v \in FieldValues : TypeSpeakerName(k, v)
  \/ Web_applySpeakers
  \/ Web_skipSpeakers
  \/ \E i \in 0..(MaxSegs - 1) : Web_segmentCheckbox(i)
  \/ Web_exportDocument
  \/ Web_exportResponse
  \/ Desk_speakerTimer
  \/ Desk_applySpeakers
  \/ Desk_skipSpeakers
  \/ \E i \in 0..(MaxSegs - 1) : Desk_toggleSegment(i)
  \/ Desk_exportDocument(TRUE, FALSE)
  \/ Desk_exportResult("saved")
  \/ Web_prevStep
  \/ Web_nextStep
  \/ Desk_prevStep
  \/ Desk_nextStep
  \/ \E st \in 1..6 : Desk_stepDot(st)

SpecSpeakers == InitSpeakers /\ [][NextSpeakers]_vars

\* the segments of a longer meeting: [seconds to the next segment, length]
SampleShapes == {<<7, 3>>, <<15, 3>>, <<15, 7>>}

RECURSIVE SampleStart(_, _, _)
\* the start of segment i when the first starts at first
SampleStart(shapes, first, i) ==
  IF i = 1 THEN first
  ELSE SampleStart(shapes, first, i - 1) + shapes[i - 1][1]

SampleTranscripts ==
  {[i \in 1..Len(shapes) |->
      [start |-> SampleStart(shapes, first, i),
       end |-> SampleStart(shapes, first, i) + shapes[i][2],
       text |-> i, speaker |-> ""]] :
     shapes \in UNION {[1..n -> SampleShapes] : n \in 1..MaxSampleSegs},
     first \in {0, 15}}

\* the web app has asked for the speaker samples of a longer meeting with
\* every segment checked
InitSamples ==
  /\ app = "web"
  /\ transcriptSegments \in SampleTranscripts
  /\ nBoxes = Len(transcriptSegments)
  /\ segChecked = 0..(nBoxes - 1)
  /\ detectedSpeakers = <<>>
  /\ AtSpeakersStep

NextSamples ==
  \E ok \in BOOLEAN : Web_snippetsResponse(ok)

SpecSamples == InitSamples /\ [][NextSamples]_vars

(***************************************************************************)
(* The backend and crypto-utils as state machines                          *)
(***************************************************************************)
\* a page that is loaded and not used
IdleWizard ==
  /\ InitWizard
  /\ app = "web"

\* login forms: a field missing, nobody's email, a user's email with
\* another user's password, each user's own credentials
LoginForms ==
  {<<"", "p1">>, <<"a@x", "">>, <<"c@x", "p1">>, <<"a@x", "p2">>,
   <<"a@x", "p1">>, <<"b@x", "p2">>}

LoginOutcomes == {"ok", "query", "write"}

InitOutcomes == {"ok", "invalid", "write"}

\* init-openai bodies with what follows: without a key nothing follows
InitRequests ==
  {<<(<<>>), FALSE, "ok">>}
    \cup {<<k, saveKey, o>> : k \in ApiKeys, saveKey \in BOOLEAN,
                              o \in InitOutcomes}

TranscribeOutcomes == {"ok", "ffmpeg", "whisper", "storage"}

\* transcribe requests with what follows: without a file nothing follows
TranscribeRequests ==
  {<<FALSE, "ok">>} \cup {<<TRUE, o>> : o \in TranscribeOutcomes}

\* get-speaker-audio requests with what follows
SpeakerAudioRequests == {<<FALSE, TRUE>>, <<TRUE, FALSE>>, <<TRUE, TRUE>>}

DocumentOutcomes == {"ok", "packer", "summary", "transcript", "url", "meeting"}

InitSrv ==
  /\ InitServer
  /\ IdleWizard
  /\ IdleCrypto

NextServer ==
  \/ \E s \in SessionIds : Api_authStatus(s)
  \/ \E s \in SessionIds, f \in LoginForms, o \in LoginOutcomes :
       Api_login(s, f[1], f[2], o)
  \/ \E s \in SessionIds, destroyed \in BOOLEAN : Api_logout(s, destroyed)
  \/ \E s \in SessionIds, queryOk \in BOOLEAN : Api_checkConfig(s, queryOk)
  \/ \E s \in SessionIds, r \in InitRequests :
       Api_initOpenai(s, r[1], r[2], r[3])
  \/ \E s \in SessionIds, r \in TranscribeRequests :
       Api_transcribe(s, r[1], r[2])
  \/ \E s \in SessionIds, ok \in BOOLEAN : Api_analyzeTranscript(s, ok)
  \/ \E s \in SessionIds, hasBody \in BOOLEAN :
       Api_extractSpeakerSnippets(s, hasBody)
  \/ \E s \in SessionIds, r \in SpeakerAudioRequests :
       Api_getSpeakerAudio(s, r[1], r[2])
  \/ \E s \in SessionIds, ok \in BOOLEAN : Api_generateSummary(s, ok)
  \/ \E s \in SessionIds, o \in DocumentOutcomes : Api_generateDocuments(s, o)
  \/ \E s \in SessionIds : Api_download(s)

SpecServer == InitSrv /\ [][NextServer]_vars

InitCry ==
  /\ InitCrypto
  /\ IdleWizard
  /\ IdleServer

NextCrypto ==
  \/ \E seed \in RandomSeeds : Crypto_encrypt(seed)
  \/ Crypto_decrypt

SpecCrypto == InitCry /\ [][NextCrypto]_vars

(***************************************************************************)
(* Properties of the wizard                                                *)
(***************************************************************************)
\* C1: in both wizards the recording step (step 3) is the current step
\* only if at least one microphone is selected.
C1_RecordingNeedsMicrophone ==
  currentStep = 3 => Len(selectedMicrophones) > 0

\* C2: in both wizards step 2 or a later step is the current step only
\* after init-openai succeeded in this session or (web) the server
\* reported a saved key.
C2_LaterStepsNeedValidatedKey ==
  currentStep >= 2 => keyValidated

\* the streams a session opened
OpenedBy(s) == {x \in DOMAIN streams : streams[x].by = s}

\* C7: when recording starts with the selection S, one stream is opened
\* for every device of S and each of them feeds the session's recorder.
C7_EverySelectedMicrophoneRecorded ==
  \A s \in Sessions :
    recorders[s].state = "recording" =>
      \A d \in Range(recorders[s].sel) :
        \E x \in OpenedBy(s) :
          /\ streams[x].dev = d
          /\ x \in recorders[s].src

\* the streams a Stop click would stop
StoppedByStop ==
  IF mediaRecorder = 0 \/ recorders[mediaRecorder].state # "recording" THEN {}
  ELSE IF app = "web" THEN Range(audioStreams)
  ELSE recorders[mediaRecorder].src

\* C8: under any interleaving of Start and Stop clicks with the
\* completions of getUserMedia at most one recording session exists at a
\* time (one recorder in state 'recording', one interval, one
\* AudioContext), and every live stream a recording session opened is one
\* that Stop closes.
C8_OneSessionAtATime ==
  /\ Cardinality({s \in Sessions : recorders[s].state = "recording"}) <= 1
  /\ Cardinality(timers) <= 1
  /\ Cardinality(ctxOpen) <= 1
  /\ \A s \in Sessions :
       recorders[s].state = "recording" =>
         \A x \in OpenedBy(s) : streams[x].live => x \in StoppedByStop

\* C9: after stopRecording on an active recording every track of every
\* stream the session opened is stopped, its interval is cleared, its
\* animation loop is cancelled and its AudioContext is closed.
C9_StopReleasesEverything ==
  \A s \in Sessions :
    recorders[s].state = "inactive" =>
      /\ \A x \in OpenedBy(s) : ~streams[x].live
      /\ s \notin timers
      /\ s \notin vizLoops
      /\ s \notin ctxOpen

\* the labels the model gave segment index i
LabelsOf(an, i) ==
  {an[j].isWorkRelated : j \in {k \in 1..Len(an) : an[k].segmentIndex = i}}

\* the texts of the segments whose box is checked, in transcript order
CheckedTexts ==
  LET idx == SetToSeq({i \in segChecked : i < Len(transcriptSegments)})
  IN [k \in 1..Len(idx) |-> transcriptSegments[idx[k] + 1].text]

\* C10: the work-related/casual label only sets the initial state of a
\* segment's check box (checked when the model labelled it work-related or
\* returned no entry for it, cleared when it labelled it casual), while a
\* summary request and an export carry exactly the segments whose box is
\* checked when the request is made.
C10_LabelIsOnlyASuggestion ==
  [][
    /\ (pend["reviewTimer"] > pend'["reviewTimer"]) =>
          \A i \in 0..(Len(transcriptSegments) - 1) :
            /\ LabelsOf(analysisData, i) \subseteq {TRUE} => i \in segChecked'
            /\ LabelsOf(analysisData, i) = {FALSE} => i \notin segChecked'
    /\ (Len(summaryRequests') > Len(summaryRequests)) =>
          summaryRequests'[Len(summaryRequests')] = CheckedTexts
    /\ (pend'["export"] > pend["export"]) =>
          /\ exportRequest'.sent
          /\ [k \in 1..Len(exportRequest'.lines) |->
                exportRequest'.lines[k].text] = CheckedTexts
  ]_vars

\* an export carries a segment the model labelled casual: the user's
\* override of the label was honoured
C10_Witness ==
  /\ exportRequest.sent
  /\ \E k \in 1..Len(exportRequest.lines) :
       LET i == exportRequest.lines[k].text - 1
       IN /\ LabelsOf(analysisData, i) = {FALSE}
          /\ i \in segChecked
          /\ Len(summaryData.of) > 0

(***************************************************************************)
(* Properties of the backend                                               *)
(***************************************************************************)
\* a request of session s to one of the eight protected routes
ProtectedRequest(s) ==
  \/ \E queryOk \in BOOLEAN : Api_checkConfig(s, queryOk)
  \/ \E r \in InitRequests : Api_initOpenai(s, r[1], r[2], r[3])
  \/ \E r \in TranscribeRequests : Api_transcribe(s, r[1], r[2])
  \/ \E ok \in BOOLEAN : Api_analyzeTranscript(s, ok)
  \/ \E hasBody \in BOOLEAN : Api_extractSpeakerSnippets(s, hasBody)
  \/ \E r \in SpeakerAudioRequests : Api_getSpeakerAudio(s, r[1], r[2])
  \/ \E ok \in BOOLEAN : Api_generateSummary(s, ok)
  \/ \E o \in DocumentOutcomes : Api_generateDocuments(s, o)

\* C3: each of the eight protected routes answers a request whose session
\* has no userId with status 401 'Authentication required' and runs none
\* of its handler: no upload is stored, no OpenAI call is made, and no
\* file, storage object, database document, session or client changes.
C3_ProtectedRoutesNeedSession ==
  [][\A s \in SessionIds :
       (sessions[s].userId = NoUser /\ ProtectedRequest(s)) =>
         /\ res'.route \in ProtectedRoutes
         /\ res'.status = 401
         /\ res'.error = "Authentication required"
         /\ res'.did = {}
         /\ res'.docs = 0
         /\ UNCHANGED <<sessions, users, openaiClient, db, storage>>
  ]_vars

\* a protected request was turned away while another session is logged in
\* and the OpenAI client is initialised
C3_Witness ==
  /\ res.route = "/api/transcribe"
  /\ res.status = 401
  /\ res.error = "Authentication required"
  /\ \E s \in SessionIds : sessions[s].userId = NoUser
  /\ \E s \in SessionIds : sessions[s].userId # NoUser
  /\ Truthy(openaiClient)

\* the users whose email and stored hash match a login
Verified(email, password) ==
  {u \in Users : /\ users[u].email = email
                 /\ users[u].passwordHash = bcryptHash(password)}

\* C4: POST /api/auth/login sets session.userId and session.userEmail only
\* when a user with the given email exists and the password verifies
\* against that user's hash (and then to that user, in the session of the
\* request alone); in every other outcome the status is 400, 401 or 500,
\* the session is left as it was and the OpenAI client is not changed.
C4_LoginSetsSessionOnlyWhenVerified ==
  [][res'.route = "/api/auth/login" =>
       /\ res'.status \in {200, 400, 401, 500}
       /\ res'.status # 200 =>
            /\ sessions' = sessions
            /\ openaiClient' = openaiClient
       /\ res'.status = 200 =>
            \A s \in SessionIds, f \in LoginForms, o \in LoginOutcomes :
              Api_login(s, f[1], f[2], o) =>
                /\ o = "ok"
                /\ sessions'[s].userId \in Verified(f[1], f[2])
                /\ sessions'[s].userEmail = f[1]
                /\ \A t \in SessionIds \ {s} : sessions'[t] = sessions[t]
  ]_vars

\* a login was refused while another session is logged in and the OpenAI
\* client is initialised
C4_Witness ==
  /\ res.route = "/api/auth/login"
  /\ res.status = 401
  /\ \E s \in SessionIds : sessions[s].userId = NoUser
  /\ \E s \in SessionIds : sessions[s].userId # NoUser
  /\ Truthy(openaiClient)

\* C6: the users collection changes only through /api/init-openai with
\* saveKey set and a key that passed validation; what is stored, in the
\* record of the session's user, is encrypt(apiKey) for the salt and IV
\* the call drew (EncryptedKeys tabulates encrypt on the keys), never the
\* key itself, and decrypts to the key; with saveKey false or a failed
\* validation nothing is stored.
C6_KeyStoredOnlyEncryptedOnRequest ==
  [][users' # users =>
          /\ res'.route = "/api/init-openai"
          /\ res'.status = 200
          /\ \A s \in SessionIds, r \in InitRequests :
               LET apiKey == r[1]
                   saveKey == r[2]
                   o == r[3]
               IN Api_initOpenai(s, apiKey, saveKey, o) =>
                    /\ saveKey
                    /\ o = "ok"
                    /\ \A u \in Users :
                         users'[u] # users[u] =>
                           /\ u = sessions[s].userId
                           /\ \E seed \in RandomSeeds :
                                users'[u].encryptedApiKey =
                                  EncryptedKeys[apiKey][seed]
                           /\ users'[u].encryptedApiKey # apiKey
                           /\ decryptApiKey(users'[u].encryptedApiKey) = apiKey
          /\ \A u \in Users : users'[u].encryptedApiKey \notin ApiKeys
  ]_vars

\* a validated key was saved: the user's record holds its ciphertext
C6_Witness ==
  /\ res.route = "/api/init-openai"
  /\ res.status = 200
  /\ \E s \in SessionIds :
       /\ sessions[s].userId # NoUser
       /\ Truthy(users[sessions[s].userId].encryptedApiKey)
       /\ decrypt(users[sessions[s].userId].encryptedApiKey) = openaiClient

(***************************************************************************)
(* Properties of crypto-utils                                              *)
(***************************************************************************)
RECURSIVE WellFormed(_)
\* no code unit of s is an unpaired surrogate
WellFormed(s) ==
  IF s = <<>> THEN TRUE
  ELSE IF IsHighSurrogate(s[1])
       THEN /\ Len(s) >= 2
            /\ IsLowSurrogate(s[2])
            /\ WellFormed(SubSeq(s, 3, Len(s)))
  ELSE ~IsLowSurrogate(s[1]) /\ WellFormed(Tail(s))

\* decrypt finds salt, IV, tag and ciphertext where encrypt put them:
\* at the offsets 0, 64, 80 and 96
SameOffsets ==
  (cryptoPc \in {"encrypted", "decrypted"} /\ Truthy(plainText)) =>
    LET p == decryptParts(storedData)
        key == pbkdf2Sync(getMachineKey, usedSalt)
    IN /\ TAG_POSITION = 80
       /\ ENCRYPTED_POSITION = 96
       /\ p.salt = usedSalt
       /\ p.iv = usedIv
       /\ p.encrypted = cipherUpdate(key, usedIv, utf8Write(plainText))
       /\ p.tag = getAuthTag(key, usedIv, p.encrypted)

\* C5 as stated: for every non-empty plaintext string x,
\* decrypt(encrypt(x)) returns x, whatever salt and IV encrypt drew,
\* decrypt reading the parts from the offsets encrypt wrote them at.
C5_RoundTripAnyString ==
  /\ SameOffsets
  /\ (cryptoPc = "decrypted" /\ plainText # <<>>) => decryptedText = plainText

\* C5, amended: for every non-empty plaintext string x without an unpaired
\* surrogate, decrypt(encrypt(x)) returns x, whatever salt and IV encrypt
\* drew, decrypt reading the parts from the offsets encrypt wrote them at.
C5_RoundTripWellFormed ==
  /\ SameOffsets
  /\ (cryptoPc = "decrypted" /\ plainText # <<>> /\ WellFormed(plainText)) =>
       decryptedText = plainText

\* a text with a surrogate pair came back from the round trip
C5_Witness ==
  /\ cryptoPc = "decrypted"
  /\ Len(plainText) >= 2
  /\ IsHighSurrogate(plainText[1])
  /\ WellFormed(plainText)
  /\ decryptedText = plainText

(***************************************************************************)
(* Properties of the export                                                *)
(***************************************************************************)
\* the texts of the transcript lines of the latest export request
ExportedTexts ==
  [k \in 1..Len(exportRequest.lines) |-> exportRequest.lines[k].text]

\* C11: the summary sent with an export was generated from exactly the
\* segments whose lines are in the transcript of the same export, whatever
\* navigation and check box changes preceded the export.
C11_SummaryAndTranscriptAgree ==
  exportRequest.sent => exportRequest.summary.of = ExportedTexts

\* the checked boxes that have a segment, in transcript order
CheckedSegments ==
  SetToSeq({i \in segChecked : i < Len(transcriptSegments)})

\* the name assigned to segment index: the web app keeps it in
\* speakerAssignments, the desktop app on the segment
AssignedName(index) ==
  IF app = "web"
  THEN IF index \in DOMAIN speakerAssignments THEN speakerAssignments[index]
       ELSE "Unknown Speaker"
  ELSE IF transcriptSegments[index + 1].speaker = "" THEN "Unknown Speaker"
       ELSE transcriptSegments[index + 1].speaker

\* C12: the transcript lines sent for export are exactly the checked
\* segments, in transcript order, one line per segment, each with that
\* segment's text and the name assigned to that segment, or 'Unknown
\* Speaker' when it has none.
C12_LinesAreTheCheckedSegments ==
  [][(pend'["export"] > pend["export"]) =>
       /\ exportRequest'.sent
       /\ Len(exportRequest'.lines) = Len(CheckedSegments)
       /\ \A k \in 1..Len(CheckedSegments) :
            /\ exportRequest'.lines[k].text =
                 transcriptSegments[CheckedSegments[k] + 1].text
            /\ exportRequest'.lines[k].speaker =
                 AssignedName(CheckedSegments[k])
  ]_vars

\* an export of two lines whose segments were given two different names
C12_Witness ==
  /\ exportRequest.sent
  /\ Len(exportRequest.lines) = 2
  /\ exportRequest.lines[1].speaker = "Ann"
  /\ exportRequest.lines[2].speaker = "Bob"
  /\ exportRequest.lines[1].text = 1
  /\ exportRequest.lines[2].text = 2

\* C13: on the desktop a segment whose name field is blank when Apply is
\* clicked, and every segment when the step is skipped, has no speaker
\* afterwards and so is exported with 'Unknown Speaker', whatever names
\* were applied before.  (A click on Apply that writes no name is the same
\* step as a click on Skip; the second conjunct is about the steps that
\* can only be a Skip.)
C13_BlankOrSkippedIsUnknown ==
  [][/\ Desk_applySpeakers =>
          \A k \in 1..Len(speakerInputs) :
            /\ trim(speakerInputs[k].value) = ""
            /\ speakerInputs[k].seg + 1 \in DOMAIN transcriptSegments
            => Desk_speakerOf(transcriptSegments'[speakerInputs[k].seg + 1])
                 = "Unknown Speaker"
     /\ Desk_skipSpeakers /\ ~Desk_applySpeakers =>
          \A i \in DOMAIN transcriptSegments :
            Desk_speakerOf(transcriptSegments'[i]) = "Unknown Speaker"
  ]_vars

\* C14: the desktop export calls 'generate-documents' only with at least
\* one format selected; a call whose folder dialog is not cancelled (and in
\* which nothing throws) reports success with the Summary and the
\* Transcript written; a cancelled dialog writes no file and shows no alert.
C14_ExportFormats ==
  [][/\ app = "desktop" /\ pend'["export"] > pend["export"] =>
          exportRequest'.formats.word \/ exportRequest'.formats.pdf
     /\ app = "desktop" /\ pend'["export"] < pend["export"] =>
          /\ exportResult'.error = "Save cancelled" =>
               /\ ~exportResult'.success
               /\ exportResult'.written = {}
               /\ exportResult'.alert = ""
          /\ exportResult'.error \notin {"Save cancelled", "message"} =>
               /\ exportResult'.success
               /\ exportResult'.written = {"Summary", "Transcript"}
               /\ exportResult'.alert = "Documents generated successfully"
  ]_vars

\* C15: a generate-summary call leaves the wizard on the step it was
\* issued from until its outcome is known: issuing the call does not change
\* the step, and neither does a response that reports failure, so a failed
\* call never leaves the wizard on the speaker or export step without the
\* summary those steps need.
C15_FailedSummaryStaysOnReview ==
  [][/\ Len(summaryRequests') > Len(summaryRequests) =>
          currentStep' = currentStep
     /\ Len(summaryRequests') < Len(summaryRequests)
          /\ summaryData' = summaryData =>
          currentStep' = currentStep
  ]_vars

\* C16: a generate-documents call that reports success has produced and
\* stored both the Summary and the Transcript; the meeting record is added
\* to Firestore only by a call in which both uploads and both signed URLs
\* succeeded; a call in which a document was not stored does not report
\* success.  (Web: the response of /api/generate-documents; desktop: the
\* result of the 'generate-documents' handler.)
C16_SuccessMeansBothDocuments ==
  /\ res.route = "/api/generate-documents" =>
       /\ res.status = 200 =>
            /\ res.docs = 2
            /\ res.did \cap {"storage", "file"} # {}
       /\ "db" \in res.did =>
            /\ res.status = 200
            /\ res.docs = 2
            /\ "storage" \in res.did
       /\ res.docs < 2 => res.status # 200
  /\ exportResult.success => exportResult.written = {"Summary", "Transcript"}

\* a call that stored both documents and added the meeting record
C16_Witness ==
  /\ res.route = "/api/generate-documents"
  /\ res.status = 200
  /\ res.docs = 2
  /\ res.did = {"storage", "db"}

\* C17: a key that fails validation in /api/init-openai does not become the
\* active client: the step of such a request leaves openaiClient as it was
\* (and with it the isInitialized of check-config).
C17_InvalidKeyNotActive ==
  [][(res'.route = "/api/init-openai" /\ res'.status = 400) =>
       \A s \in SessionIds, r \in InitRequests :
         (requireAuth(s) /\ r[3] = "invalid"
            /\ Api_initOpenai(s, r[1], r[2], r[3]))
         => openaiClient' = openaiClient
  ]_vars

\* a request of session s that can set or clear a client
KeyRequest(s) ==
  \/ \E f \in LoginForms, o \in LoginOutcomes : Api_login(s, f[1], f[2], o)
  \/ \E r \in InitRequests : Api_initOpenai(s, r[1], r[2], r[3])
  \/ \E destroyed \in BOOLEAN : Api_logout(s, destroyed)

\* C18: keys are isolated between sessions: a login, key change or logout
\* of one session does not change the client the requests of another,
\* logged-in session use.
C18_KeysIsolatedBetweenSessions ==
  [][openaiClient' # openaiClient =>
       \A b \in SessionIds : requireAuth(b) => KeyRequest(b)
  ]_vars

\* C19: a successful logout leaves the session without a user; from then
\* on, until a successful login of that session, its requests to protected
\* routes get 401 and /api/auth/status reports authenticated false; a
\* logout whose session.destroy fails answers 500 and leaves the sessions
\* and the OpenAI client untouched.
C19_LogoutEndsTheSession ==
  [][\A s \in SessionIds :
       /\ (res'.route = "/api/auth/logout" /\ Api_logout(s, TRUE)) =>
            /\ res'.status = 200
            /\ sessions'[s].userId = NoUser
       /\ (res'.route = "/api/auth/logout" /\ Api_logout(s, FALSE)) =>
            /\ res'.status = 500
            /\ UNCHANGED <<sessions, openaiClient>>
       /\ (sessions[s].userId = NoUser /\ sessions'[s].userId # NoUser) =>
            /\ res'.route = "/api/auth/login"
            /\ res'.status = 200
       /\ (sessions[s].userId = NoUser /\ res'.route \in ProtectedRoutes
             /\ ProtectedRequest(s)) =>
            res'.status = 401
       /\ (sessions[s].userId = NoUser /\ res'.route = "/api/auth/status"
             /\ Api_authStatus(s)) =>
            ~res'.body.authenticated
  ]_vars

\* every session is logged out again after one of them had logged in and
\* saved a key
C19_Witness ==
  /\ res.route = "/api/auth/logout"
  /\ res.status = 200
  /\ \A s \in SessionIds : sessions[s] = NoSession
  /\ \E u \in Users : Truthy(users[u].encryptedApiKey)
  /\ openaiClient = Null

\* C20: when check-config makes the web page show 'API key configured' and
\* the Continue button (hasApiKey), the server holds an initialised OpenAI
\* client, so that transcribe, analyze and summary are not turned away with
\* 'OpenAI not initialized'.
C20_ConfiguredMeansInitialized ==
  (res.route = "/api/check-config" /\ res.status = 200 /\ res.body.hasApiKey)
    => Truthy(openaiClient)

(***************************************************************************)
(* Properties of the wizard, continued                                     *)
(***************************************************************************)
\* C21: in the web wizard a step other than the login screen (step 0) is
\* the current step only while isAuthenticated is true, that is after a
\* successful login or a positive auth-status check of this page load.
C21_StepsNeedLogin ==
  (app = "web" /\ currentStep >= 1) => isAuthenticated

\* a click on Skip or Apply of the speaker step: the handlers that end with
\* displayFinalReview
FinalReviewClick ==
  /\ currentStep = 5
  /\ currentStep' = 6
  /\ \/ Web_skipSpeakers
     \/ Web_applySpeakers
     \/ Desk_skipSpeakers
     \/ Desk_applySpeakers

\* C22: in both wizards displayFinalReview (run by Skip and Apply on the
\* way to step 6) and the export request run only when a generated summary
\* exists, whatever the order of the clicks and a pending or failed summary
\* request.
C22_FinalReviewNeedsSummary ==
  [][/\ FinalReviewClick => summaryData.set
     /\ pend'["export"] > pend["export"] => summaryData.set
  ]_vars

\* C23: when a getUserMedia of a startRecording call rejects, every stream
\* that call had opened is stopped and the call leaves no interval, no
\* animation loop and no open AudioContext behind; unless another recorder
\* is recording, Start is enabled and Stop disabled.
C23_FailedStartReleasesStreams ==
  [][\A t \in tasks :
       (Web_getUserMediaRejected(t) \/ Desk_getUserMediaRejected(t)) =>
         /\ \A x \in DOMAIN streams' :
              streams'[x].by = t.id => ~streams'[x].live
         /\ t.id \notin timers'
         /\ t.id \notin vizLoops'
         /\ t.id \notin ctxOpen'
         /\ (\A s \in Sessions : recorders'[s].state # "recording") =>
              ~startDisabled' /\ stopDisabled'
  ]_vars

\* C24: the processing a Stop starts ends either with the transcript
\* review displayed or with an error reported, never with both.
C24_ReviewOrErrorNotBoth ==
  ~(reviewVisible /\ processingReport = "error")

\* C25: the samples /api/extract-speaker-snippets answers for a non-empty
\* segment list are at most 8, are numbered by their position, come from
\* segments of strictly increasing index, start where their segment starts,
\* last at most 5 seconds, end no later than their segment, and consecutive
\* samples start at least 15 seconds apart.
C25_SamplesOfSnippets ==
  [][(pend'["snippets"] < pend["snippets"] /\ Web_snippetsResponse(TRUE)) =>
       LET segments == snippetRequest
           samples == speakerSamples'
       IN /\ Len(samples) <= 8
          /\ \A k \in 1..Len(samples) :
               /\ samples[k].sampleIndex = k - 1
               /\ samples[k].segmentIndex \in 0..(Len(segments) - 1)
               /\ samples[k].startTime =
                    segments[samples[k].segmentIndex + 1].start
               /\ samples[k].endTime - samples[k].startTime <= 5
               /\ samples[k].endTime <=
                    segments[samples[k].segmentIndex + 1].end
          /\ \A k \in 1..(Len(samples) - 1) :
               /\ samples[k + 1].startTime - samples[k].startTime >= 15
               /\ samples[k + 1].segmentIndex > samples[k].segmentIndex
  ]_vars

\* eight samples were answered although a later segment qualified, a
\* segment between two samples was passed over, one sample was cut to five
\* seconds and one ends with its shorter segment
C25_Witness ==
  /\ Len(speakerSamples) = 8
  /\ transcriptSegments[Len(transcriptSegments)].start
       - speakerSamples[8].startTime >= 15
  /\ \E k \in 1..7 :
       speakerSamples[k + 1].segmentIndex > speakerSamples[k].segmentIndex + 1
  /\ \E k \in 1..8 : speakerSamples[k].endTime - speakerSamples[k].startTime = 5
  /\ \E k \in 1..8 : speakerSamples[k].endTime - speakerSamples[k].startTime = 3

\* the samples with a name field that start at or before segment index
\* starts, less than 60 seconds earlier
SamplesBefore(index) ==
  {sampleIdx \in 0..(Len(speakerSamples) - 1) :
     /\ sampleIdx + 1 <= Len(speakerInputs)
     /\ speakerSamples[sampleIdx + 1].startTime
          <= transcriptSegments[index + 1].start
     /\ transcriptSegments[index + 1].start
          - speakerSamples[sampleIdx + 1].startTime < 60}

\* the name entered for the closest sample before segment index
NameOfClosestBefore(index) ==
  IF SamplesBefore(index) = {} THEN "Unknown Speaker"
  ELSE Web_sampleName(
         CHOOSE c \in SamplesBefore(index) :
           \A o \in SamplesBefore(index) :
             speakerSamples[o + 1].startTime <= speakerSamples[c + 1].startTime)

\* C26: a click on Apply in the web app leaves exactly the included
\* segments with an assignment, each the name entered for the closest
\* sample that starts at or before the segment and less than 60 seconds
\* away, 'Unknown Speaker' when there is no such sample.
C26_ApplyNamesFromClosestSampleBefore ==
  [][(app = "web" /\ currentStep = 5 /\ currentStep' = 6
        /\ Web_applySpeakers) =>
       /\ DOMAIN speakerAssignments' = segChecked
       /\ \A index \in segChecked :
            speakerAssignments'[index] = NameOfClosestBefore(index)
  ]_vars

\* the names detected in the transcript segment that sample k of samples
\* was taken from, segments being the list the samples were asked for
NamesIntroducedIn(segments, samples, k) ==
  {detectedSpeakers[d].name : d \in
     {e \in 1..Len(detectedSpeakers) :
        /\ detectedSpeakers[e].segmentIndex + 1 \in DOMAIN transcriptSegments
        /\ transcriptSegments[detectedSpeakers[e].segmentIndex + 1].text
             = segments[samples[k].segmentIndex + 1].text}}

\* C27: when the speaker samples arrive, the name field of a sample taken
\* from the segment of a detected self-introduction holds the detected
\* name, and the field of every other sample is empty, whichever segments
\* were included.
C27_PrefillOnlyTheIntroductionSample ==
  [][(pend'["snippets"] < pend["snippets"] /\ Web_snippetsResponse(TRUE)) =>
       \A k \in 1..Len(speakerSamples') :
         IF NamesIntroducedIn(snippetRequest, speakerSamples', k) = {}
         THEN speakerInputs'[k].value = ""
         ELSE speakerInputs'[k].value
                \in NamesIntroducedIn(snippetRequest, speakerSamples', k)
  ]_vars

====
